---------------------------- MODULE Spec2Model ----------------------------
(***************************************************************************)
(* A model of the heuristic extraction pipeline of QuantumDB's tools:      *)
(* the committee scraper (tools/scrape_committees) and the talk/schedule   *)
(* matchers (tools/scrape_talks).                                          *)
(*                                                                         *)
(* Text is a sequence of characters; a character is a one-character       *)
(* string (the en-dash U+2013 is written "endash", the em-dash U+2014     *)
(* "emdash").  An optional value is                                        *)
(* a sequence of length 0 (None) or 1.                                     *)
(***************************************************************************)
EXTENDS Integers, Sequences, FiniteSets, TLC

VARIABLES pc, args, ret

vars == <<pc, args, ret>>

(***************************************************************************)
(* Characters, in code-point order (Python compares strings by code point) *)
(***************************************************************************)
AsciiUpper ==
  <<"A", "B", "C", "D", "E", "F", "G", "H", "I", "J", "K", "L", "M",
    "N", "O", "P", "Q", "R", "S", "T", "U", "V", "W", "X", "Y", "Z">>

AsciiLower ==
  <<"a", "b", "c", "d", "e", "f", "g", "h", "i", "j", "k", "l", "m",
    "n", "o", "p", "q", "r", "s", "t", "u", "v", "w", "x", "y", "z">>

\* with one accented letter, U+00C9 / U+00E9, whose NFD form is the plain letter
\* followed by the combining mark U+0301 ("acute")
UpperLetters == AsciiUpper \o <<"Eacute">>
LowerLetters == AsciiLower \o <<"eacute">>

Digits == <<"0", "1", "2", "3", "4", "5", "6", "7", "8", "9">>

CodePoints ==
  <<" ", "!", "(", ")", ",", "-", ".", "/">> \o Digits \o <<":">>
    \o AsciiUpper \o <<"[", "]", "_">> \o AsciiLower
    \o <<"Eacute", "eacute", "acute", "endash", "emdash">>

Range(s) == {s[i] : i \in 1..Len(s)}

UpperSet == Range(UpperLetters)
LowerSet == Range(LowerLetters)
DigitSet == Range(Digits)

ord(c) == CHOOSE i \in 1..Len(CodePoints) : CodePoints[i] = c

isupperChar(c) == c \in UpperSet
islowerChar(c) == c \in LowerSet
isalpha(c) == c \in UpperSet \cup LowerSet
isalnum(c) == isalpha(c) \/ c \in DigitSet
isspace(c) == c = " "
\* \w of Python's re: letters, digits and the underscore
isword(c) == isalnum(c) \/ c = "_"

lowerChar(c) ==
  IF c \in UpperSet
    THEN LowerLetters[CHOOSE i \in 1..Len(UpperLetters) : UpperLetters[i] = c]
    ELSE c

upperChar(c) ==
  IF c \in LowerSet
    THEN UpperLetters[CHOOSE i \in 1..Len(LowerLetters) : LowerLetters[i] = c]
    ELSE c

(***************************************************************************)
(* Python's str methods                                                    *)
(***************************************************************************)
lower(s) == <<>> \o [i \in 1..Len(s) |-> lowerChar(s[i])]
upper(s) == <<>> \o [i \in 1..Len(s) |-> upperChar(s[i])]

\* str.isupper(): some cased character, and no lower-case one
isupper(s) ==
  /\ \E i \in 1..Len(s) : isupperChar(s[i])
  /\ \A i \in 1..Len(s) : ~islowerChar(s[i])

\* sub in s
Contains(s, sub) ==
  \E i \in 1..(Len(s) - Len(sub) + 1) : SubSeq(s, i, i + Len(sub) - 1) = sub

\* s.find(sub) + 1, and 0 when sub is not in s
Find(s, sub) ==
  IF Contains(s, sub)
    THEN CHOOSE i \in 1..(Len(s) - Len(sub) + 1) :
           /\ SubSeq(s, i, i + Len(sub) - 1) = sub
           /\ \A j \in 1..(i - 1) : SubSeq(s, j, j + Len(sub) - 1) # sub
    ELSE 0

\* s.split(sep, 1): <<before, after>>, or <<s>> when sep is not in s
SplitOnce(s, sep) ==
  LET i == Find(s, sep)
  IN  IF i = 0 THEN <<s>>
      ELSE <<SubSeq(s, 1, i - 1), SubSeq(s, i + Len(sep), Len(s))>>

RECURSIVE lstrip(_)
lstrip(s) == IF s # <<>> /\ isspace(Head(s)) THEN lstrip(Tail(s)) ELSE s

RECURSIVE rstrip(_)
rstrip(s) ==
  IF s # <<>> /\ isspace(s[Len(s)]) THEN rstrip(SubSeq(s, 1, Len(s) - 1)) ELSE s

strip(s) == rstrip(lstrip(s))

\* the length of the leading run of non-space characters
WordLen(s) ==
  LET spaces == {i \in 1..Len(s) : isspace(s[i])}
  IN  IF spaces = {} THEN Len(s)
      ELSE (CHOOSE i \in spaces : \A j \in spaces : i <= j) - 1

\* s.split(): the maximal runs of non-space characters
RECURSIVE split(_)
split(s) ==
  LET t == lstrip(s)
      n == WordLen(t)
  IN  IF t = <<>> THEN <<>>
      ELSE <<SubSeq(t, 1, n)>> \o split(SubSeq(t, n + 1, Len(t)))

\* sep.join(words)
RECURSIVE join(_, _)
join(sep, words) ==
  IF words = <<>> THEN <<>>
  ELSE IF Len(words) = 1 THEN words[1]
  ELSE words[1] \o sep \o join(sep, Tail(words))

\* a < b for Python strings: lexicographic by code point
RECURSIVE StrLess(_, _)
StrLess(a, b) ==
  IF b = <<>> THEN FALSE
  ELSE IF a = <<>> THEN TRUE
  ELSE IF Head(a) = Head(b) THEN StrLess(Tail(a), Tail(b))
  ELSE ord(Head(a)) < ord(Head(b))

None == <<>>
Some(x) == <<x>>

(***************************************************************************)
(* scrape_committees.py: names                                             *)
(***************************************************************************)
\* a member record of the committee scraper
CommitteeMember(name, committee, position, role_title, affiliation) ==
  [name |-> name, committee |-> committee, position |-> position,
   role_title |-> role_title, affiliation |-> affiliation]

\* \b before the character at position i (1-based; i = Len(s) + 1 is the end)
WordBoundary(s, i) ==
  ((i - 1) \in 1..Len(s) /\ isword(s[i - 1])) # (i \in 1..Len(s) /\ isword(s[i]))

\* The spellings the alternation Dr\.|Prof\.|Jr\.|Sr\.|Ph\.?D\.?|M\.?D\.? can
\* match, in the order the regex engine tries them (greedy optional dots first).
TitleSpellings ==
  <<<<"d", "r", ".">>, <<"p", "r", "o", "f", ".">>, <<"j", "r", ".">>, <<"s", "r", ".">>,
    <<"p", "h", ".", "d", ".">>, <<"p", "h", ".", "d">>, <<"p", "h", "d", ".">>, <<"p", "h", "d">>,
    <<"m", ".", "d", ".">>, <<"m", ".", "d">>, <<"m", "d", ".">>, <<"m", "d">>>>

\* whether spelling k matches at position i, case-insensitively, between two \b
TitleMatches(s, i, k) ==
  LET lit == TitleSpellings[k]
      j == i + Len(lit)
  IN  /\ j - 1 <= Len(s)
      /\ lower(SubSeq(s, i, j - 1)) = lit
      /\ WordBoundary(s, i)
      /\ WordBoundary(s, j)

\* the length of the regex's match at position i, 0 when there is none
TitleMatchLen(s, i) ==
  IF WordBoundary(s, i) /\ \E k \in 1..Len(TitleSpellings) : TitleMatches(s, i, k)
    THEN Len(TitleSpellings[CHOOSE k \in 1..Len(TitleSpellings) :
               /\ TitleMatches(s, i, k)
               /\ \A h \in 1..(k - 1) : ~TitleMatches(s, i, h)])
    ELSE 0

\* re.sub(pattern, '', s) from position i on
RECURSIVE StripTitles(_, _)
StripTitles(s, i) ==
  IF i > Len(s) THEN <<>>
  ELSE LET n == TitleMatchLen(s, i)
       IN  IF n > 0 THEN StripTitles(s, i + n)
           ELSE <<s[i]>> \o StripTitles(s, i + 1)

normalize_name(name) ==
  strip(lower(join(<<" ">>, split(StripTitles(name, 1)))))

\* (mutant) the name is stored as extracted
clean_name_AsExtracted(name) == name

clean_name(name) == join(<<" ">>, split(name))

(***************************************************************************)
(* scrape_committees.py: the Deduplicator                                  *)
(***************************************************************************)
\* (mutant) an unstable sort: a record goes before the records of equal name
RECURSIVE InsertByName_Unstable(_, _)
InsertByName_Unstable(sorted, m) ==
  IF sorted = <<>> THEN <<m>>
  ELSE IF StrLess(m.name, Head(sorted).name) \/ m.name = Head(sorted).name
         THEN <<m>> \o sorted
         ELSE <<Head(sorted)>> \o InsertByName_Unstable(Tail(sorted), m)

\* sorted(members, key=lambda m: m.name): a stable sort by name
RECURSIVE InsertByName(_, _)
InsertByName(sorted, m) ==
  IF sorted = <<>> THEN <<m>>
  ELSE IF StrLess(m.name, Head(sorted).name)
         THEN <<m>> \o sorted
         ELSE <<Head(sorted)>> \o InsertByName(Tail(sorted), m)

RECURSIVE SortedByName(_)
SortedByName(members) ==
  IF members = <<>> THEN <<>>
  ELSE InsertByName(SortedByName(SubSeq(members, 1, Len(members) - 1)),
                    members[Len(members)])

\* (mutant) records removed from the list while it is iterated: the record after
\* a removed one is never looked at
RECURSIVE KeepFirstByName_RemoveWhileIterating(_, _)
KeepFirstByName_RemoveWhileIterating(members, seen) ==
  IF members = <<>> THEN <<>>
  ELSE LET normalized == normalize_name(Head(members).name)
           rest == Tail(members)
       IN  IF normalized \notin seen
             THEN <<Head(members)>>
                    \o KeepFirstByName_RemoveWhileIterating(rest, seen \cup {normalized})
           ELSE IF rest = <<>> THEN <<>>
           ELSE <<Head(rest)>>
                  \o KeepFirstByName_RemoveWhileIterating(Tail(rest), seen)

\* the loop of deduplicate_members over the sorted records
RECURSIVE KeepFirstByName(_, _)
KeepFirstByName(members, seen) ==
  IF members = <<>> THEN <<>>
  ELSE LET normalized == normalize_name(Head(members).name)
       IN  IF normalized \notin seen
             THEN <<Head(members)>>
                    \o KeepFirstByName(Tail(members), seen \cup {normalized})
             ELSE KeepFirstByName(Tail(members), seen)

deduplicate_members(members) == KeepFirstByName(SortedByName(members), {})


(***************************************************************************)
(* scrape_committees.py: the Field Extractor                               *)
(***************************************************************************)
institution_keywords ==
  {<<"u", "n", "i", "v", "e", "r", "s", "i", "t", "y">>, <<"i", "n", "s", "t", "i", "t", "u", "t", "e">>, <<"c", "o", "l", "l", "e", "g", "e">>, <<"l", "a", "b", "o", "r", "a", "t", "o", "r", "y">>, <<"c", "e", "n", "t", "e", "r">>,
   <<"c", "e", "n", "t", "r", "e">>, <<"s", "c", "h", "o", "o", "l">>, <<"d", "e", "p", "a", "r", "t", "m", "e", "n", "t">>, <<"l", "a", "b">>, <<"r", "e", "s", "e", "a", "r", "c", "h">>,
   <<"a", "c", "a", "d", "e", "m", "y">>, <<"n", "a", "t", "i", "o", "n", "a", "l">>, <<"m", "i", "n", "i", "s", "t", "r", "y">>, <<"a", "g", "e", "n", "c", "y">>, <<"c", "o", "r", "p", "o", "r", "a", "t", "i", "o", "n">>,
   <<"c", "o", "m", "p", "a", "n", "y">>, <<"f", "o", "u", "n", "d", "a", "t", "i", "o", "n">>, <<"s", "o", "c", "i", "e", "t", "y">>, <<"o", "r", "g", "a", "n", "i", "z", "a", "t", "i", "o", "n">>,
   <<"o", "r", "g", "a", "n", "i", "s", "a", "t", "i", "o", "n">>, <<"c", "o", "n", "s", "o", "r", "t", "i", "u", "m">>, <<"j", "p", "m", "o", "r", "g", "a", "n">>, <<"a", "m", "a", "z", "o", "n">>, <<"g", "o", "o", "g", "l", "e">>,
   <<"m", "i", "c", "r", "o", "s", "o", "f", "t">>, <<"i", "b", "m">>, <<"a", "w", "s">>, <<"n", "t", "t">>, <<"c", "e", "s", "g", "a">>, <<"c", "n", "r", "s">>, <<"i", "n", "r", "i", "a">>,
   <<"e", "t", "h">>, <<"m", "i", "t">>, <<"c", "a", "l", "t", "e", "c", "h">>, <<"w", "e", "i", "z", "m", "a", "n", "n">>, <<"f", "r", "a", "u", "n", "h", "o", "f", "e", "r">>, <<"h", "h", "h">>,
   <<"i", "i", "s">>}

location_prefixes ==
  {<<"n", "e", "w">>, <<"y", "o", "r", "k">>, <<"h", "o", "n", "g">>, <<"k", "o", "n", "g">>, <<"s", "a", "n">>, <<"l", "o", "s">>, <<"t", "e", "l">>,
   <<"a", "v", "i", "v">>, <<"r", "i", "o">>, <<"c", "a", "p", "e">>, <<"t", "o", "w", "n">>, <<"m", "e", "x", "i", "c", "o">>, <<"c", "i", "t", "y">>}

location_first_words ==
  {<<"n", "e", "w">>, <<"s", "a", "n">>, <<"h", "o", "n", "g">>, <<"t", "e", "l">>, <<"r", "i", "o">>, <<"c", "a", "p", "e">>}

\* The extractor's result: name, optional affiliation, role text
Extracted(name, affiliation, role_info) ==
  [name |-> name, affiliation |-> affiliation, role_info |-> role_info]

\* Python indexes words from 0: words[i] is W[i + 1] here.  The index (0-based)
\* of the first institution keyword at index >= 1, or -1.
FirstKeywordIndex(W) ==
  LET hits == {i \in 1..(Len(W) - 1) : lower(W[i + 1]) \in institution_keywords}
  IN  IF hits = {} THEN -1
      ELSE CHOOSE i \in hits : \A j \in hits : i <= j

\* affiliation_start of the " Site " rule (0-based), -1 for None
AffiliationStart(W) ==
  LET i == FirstKeywordIndex(W)
  IN  IF i = -1 THEN -1
      ELSE IF i > 2 /\ lower(W[i]) \in location_prefixes
             THEN IF i > 3 /\ lower(W[i - 1]) \in location_first_words
                    THEN i - 2
                    ELSE i - 1
             ELSE i

\* name_word_count when no institution keyword was found
FallbackNameWords(W) ==
  LET top == IF Len(W) < 4 THEN Len(W) ELSE 4
      stops == {i \in 1..(top - 1) : ~isupperChar(W[i + 1][1])}
  IN  IF stops = {} THEN (IF Len(W) < 3 THEN Len(W) ELSE 3)
      ELSE CHOOSE i \in stops : \A j \in stops : i <= j

ExtractSite(text) ==
  LET parts == SplitOnce(text, <<" ", "S", "i", "t", "e", " ">>)
      W == split(parts[1])
      start == AffiliationStart(W)
      name_word_count == IF start = -1 THEN FallbackNameWords(W) ELSE start
  IN  Extracted(join(<<" ">>, SubSeq(W, 1, name_word_count)),
                IF name_word_count < Len(W)
                  THEN Some(join(<<" ">>, SubSeq(W, name_word_count + 1, Len(W))))
                  ELSE None,
                parts[2])

\* (mutant) the parenthetical is the affiliation even when it is a role
ExtractParens_AlwaysAffiliation(text) ==
  LET parts == SplitOnce(text, <<"(">>)
      rest == parts[2]
      end_paren == Find(rest, <<")">>)
      in_parens == SubSeq(rest, 1, end_paren - 1)
      is_role == \/ Contains(lower(in_parens), <<"c", "h", "a", "i", "r">>)
                 \/ Contains(lower(in_parens), <<"m", "e", "m", "b", "e", "r">>)
      after_parens == strip(SubSeq(rest, end_paren + 1, Len(rest)))
      role0 == IF is_role THEN in_parens ELSE <<>>
  IN  IF end_paren = 0
        THEN Extracted(strip(parts[1]), None, <<>>)
        ELSE Extracted(strip(parts[1]),
                       Some(in_parens),
                       IF after_parens # <<>>
                         THEN role0 \o <<" ">> \o after_parens
                         ELSE role0)

ExtractParens(text) ==
  LET parts == SplitOnce(text, <<"(">>)
      rest == parts[2]
      end_paren == Find(rest, <<")">>)
      in_parens == SubSeq(rest, 1, end_paren - 1)
      is_role == \/ Contains(lower(in_parens), <<"c", "h", "a", "i", "r">>)
                 \/ Contains(lower(in_parens), <<"m", "e", "m", "b", "e", "r">>)
      after_parens == strip(SubSeq(rest, end_paren + 1, Len(rest)))
      role0 == IF is_role THEN in_parens ELSE <<>>
  IN  IF end_paren = 0
        THEN Extracted(strip(parts[1]), None, <<>>)
        ELSE Extracted(strip(parts[1]),
                       IF is_role THEN None ELSE Some(in_parens),
                       IF after_parens # <<>>
                         THEN role0 \o <<" ">> \o after_parens
                         ELSE role0)

IsRoleText(rest) ==
  \/ Contains(lower(rest), <<"c", "h", "a", "i", "r">>)
  \/ Contains(lower(rest), <<"m", "e", "m", "b", "e", "r">>)
  \/ Contains(lower(rest), <<"o", "r", "g", "a", "n", "i", "z", "e", "r">>)

ExtractDash(text) ==
  LET separator == IF Contains(text, <<" ", "-", " ">>) THEN <<" ", "-", " ">> ELSE <<" ", "endash", " ">>
      parts == SplitOnce(text, separator)
      rest == parts[2]
  IN  IF IsRoleText(rest)
        THEN Extracted(strip(parts[1]), None, rest)
        ELSE Extracted(strip(parts[1]), Some(rest), <<>>)

ExtractComma(text) ==
  LET parts == SplitOnce(text, <<",">>)
      rest == strip(parts[2])
  IN  IF IsRoleText(rest)
        THEN Extracted(strip(parts[1]), None, rest)
        ELSE Extracted(strip(parts[1]), Some(rest), <<>>)

extract_name_affiliation_role(text) ==
  IF Contains(text, <<" ", "S", "i", "t", "e", " ">>) THEN ExtractSite(text)
  ELSE IF Contains(text, <<"(">>) /\ Contains(text, <<")">>) THEN ExtractParens(text)
  ELSE IF Contains(text, <<" ", "-", " ">>) \/ Contains(text, <<" ", "endash", " ">>) THEN ExtractDash(text)
  ELSE IF Contains(text, <<",">>) THEN ExtractComma(text)
  ELSE Extracted(text, None, text)

(***************************************************************************)
(* scrape_committees.py: the Role Classifier                               *)
(***************************************************************************)
\* <<position, role_title>>
detect_position(name, full_text, role_info) ==
  LET combined == lower(full_text \o <<" ">> \o role_info)
      has(p) == Contains(combined, p)
  IN  IF has(<<"g", "e", "n", "e", "r", "a", "l", " ", "c", "h", "a", "i", "r">>) \/ has(<<"c", "o", "n", "f", "e", "r", "e", "n", "c", "e", " ", "c", "h", "a", "i", "r">>)
        THEN <<"chair", Some(<<"G", "e", "n", "e", "r", "a", "l", " ", "C", "h", "a", "i", "r">>)>>
      ELSE IF has(<<"p", "r", "o", "g", "r", "a", "m", " ", "c", "h", "a", "i", "r">>) \/ has(<<"p", "c", " ", "c", "h", "a", "i", "r">>) \/ has(<<"p", "c", " ", "p", "r", "i", "m", "a", "r", "y", " ", "c", "h", "a", "i", "r">>)
        THEN <<"chair", Some(<<"P", "r", "o", "g", "r", "a", "m", " ", "C", "h", "a", "i", "r">>)>>
      ELSE IF has(<<"s", "t", "e", "e", "r", "i", "n", "g", " ", "c", "h", "a", "i", "r">>) \/ has(<<"s", "c", " ", "c", "h", "a", "i", "r">>)
        THEN <<"chair", Some(<<"S", "t", "e", "e", "r", "i", "n", "g", " ", "C", "h", "a", "i", "r">>)>>
      ELSE IF has(<<"l", "o", "c", "a", "l", " ", "c", "h", "a", "i", "r">>)
        THEN <<"chair", Some(<<"L", "o", "c", "a", "l", " ", "C", "h", "a", "i", "r">>)>>
      ELSE IF has(<<"c", "o", "-", "c", "h", "a", "i", "r">>) \/ has(<<"c", "o", "c", "h", "a", "i", "r">>) \/ has(<<"p", "c", " ", "c", "o", "-", "c", "h", "a", "i", "r">>)
        THEN <<"co_chair", None>>
      ELSE IF has(<<"a", "r", "e", "a", " ", "c", "h", "a", "i", "r">>) \/ has(<<"s", "e", "n", "i", "o", "r", " ", "p", "c">>)
        THEN <<"area_chair", None>>
      ELSE IF has(<<"c", "h", "a", "i", "r">>)
        THEN <<"chair", None>>
      ELSE <<"member", None>>

(***************************************************************************)
(* scrape_committees.py: the Entry Filter and parse_member_entry           *)
(***************************************************************************)
blacklist_primary ==
  <<<<"a", "c", "c", "e", "p", "t", "e", "d", " ", "p", "a", "p", "e", "r", "s">>, <<"c", "a", "l", "l", " ", "f", "o", "r", " ", "p", "a", "p", "e", "r", "s">>, <<"c", "o", "d", "e", " ", "o", "f", " ", "c", "o", "n", "d", "u", "c", "t">>, <<"c", "h", "a", "r", "t", "e", "r">>,
    <<"s", "c", "h", "e", "d", "u", "l", "e">>, <<"s", "p", "e", "a", "k", "e", "r", "s">>, <<"p", "o", "s", "t", "e", "r">>, <<"p", "i", "c", "t", "u", "r", "e", "s">>, <<"s", "p", "o", "n", "s", "o", "r", "s">>,
    <<"p", "a", "r", "t", "n", "e", "r", "s">>, <<"p", "r", "o", "c", "e", "e", "d", "i", "n", "g", "s">>, <<"r", "e", "g", "i", "s", "t", "r", "a", "t", "i", "o", "n">>, <<"v", "e", "n", "u", "e">>, <<"t", "r", "a", "v", "e", "l">>,
    <<"a", "c", "c", "o", "m", "m", "o", "d", "a", "t", "i", "o", "n">>, <<"c", "o", "n", "t", "a", "c", "t">>, <<"a", "b", "o", "u", "t">>, <<"h", "o", "m", "e">>, <<"n", "e", "w", "s">>, <<"a", "r", "c", "h", "i", "v", "e">>,
    <<"p", "r", "e", "v", "i", "o", "u", "s">>, <<"n", "e", "x", "t">>, <<"p", "r", "o", "g", "r", "a", "m">>, <<"t", "u", "t", "o", "r", "i", "a", "l", "s">>, <<"w", "o", "r", "k", "s", "h", "o", "p", "s">>,
    <<"m", "e", "m", "b", "e", "r", "s", " ", "o", "n", "l", "y">>, <<"l", "o", "g", "i", "n">>, <<"l", "o", "g", "o", "u", "t">>, <<"s", "e", "a", "r", "c", "h">>>>

blacklist_nav ==
  <<<<"t", "w", "i", "t", "t", "e", "r">>, <<"y", "o", "u", "t", "u", "b", "e">>, <<"l", "i", "n", "k", "e", "d", "i", "n">>, <<"f", "a", "c", "e", "b", "o", "o", "k">>, <<"i", "n", "s", "t", "a", "g", "r", "a", "m">>,
    <<"s", "t", "e", "e", "r", "i", "n", "g", " ", "c", "o", "m", "m", "i", "t", "t", "e", "e">>, <<"p", "r", "o", "g", "r", "a", "m", " ", "c", "o", "m", "m", "i", "t", "t", "e", "e">>, <<"o", "r", "g", "a", "n", "i", "z", "i", "n", "g", " ", "c", "o", "m", "m", "i", "t", "t", "e", "e">>,
    <<"g", "e", "n", "e", "r", "a", "l", " ", "c", "h", "a", "i", "r", "s">>, <<"p", "r", "o", "g", "r", "a", "m", " ", "c", "h", "a", "i", "r", "s">>, <<"l", "o", "c", "a", "l", " ", "a", "r", "r", "a", "n", "g", "e", "m", "e", "n", "t", "s">>>>

ShortNavLen == 100
ShortTextLen == 30
MinAlpha == 3
MinNameLen == 3
MaxNameLen == 100

\* the navigation loop returns None at the first item it finds in a short text
\* that does not look like a person's entry; the test does not depend on the item
RejectedAsNavigation(text, text_lower) ==
  LET words == split(text)
  IN  /\ \E k \in 1..Len(blacklist_nav) : Contains(text_lower, blacklist_nav[k])
      /\ Len(text) < ShortNavLen
      /\ ~(Len(words) >= 2 /\ \E w \in Range(words) : isupperChar(w[1]))

RejectedAsBoilerplate(text, text_lower) ==
  \E k \in 1..Len(blacklist_primary) :
     \/ blacklist_primary[k] = text_lower
     \/ Contains(text_lower, blacklist_primary[k]) /\ Len(text) < ShortTextLen

RejectedAsCapsOrUrl(text) ==
  \/ isupper(text)
  \/ Contains(text, <<"h", "t", "t", "p", ":", "/", "/">>)
  \/ Contains(text, <<"h", "t", "t", "p", "s", ":", "/", "/">>)
  \/ Contains(text, <<"w", "w", "w", ".">>)

alpha_count(text) == Cardinality({i \in 1..Len(text) : isalpha(text[i])})

\* lines 393-419: the checks that run before field extraction
EntryFilterRejects(text) ==
  LET text_lower == lower(text)
  IN
  \/ RejectedAsNavigation(text, text_lower)
  \/ RejectedAsBoilerplate(text, text_lower)
  \/ RejectedAsCapsOrUrl(text)
  \/ alpha_count(text) < MinAlpha
  \/ Len(split(text)) < 2 /\ ~Contains(text, <<"(">>)

\* lines 424-429: the validation of the extracted name
NameRejected(name) ==
  \/ Len(name) < MinNameLen
  \/ Len(name) > MaxNameLen
  \/ name = lower(name)
  \/ name = upper(name)

\* None, or Some(member)
parse_member_entry(text, committee_type) ==
  IF EntryFilterRejects(text) THEN None
  ELSE LET e == extract_name_affiliation_role(text)
           p == detect_position(e.name, text, e.role_info)
       IN  IF NameRejected(e.name) THEN None
           ELSE Some(CommitteeMember(clean_name(e.name), committee_type,
                                     p[1], p[2], e.affiliation))


(***************************************************************************)
(* scrapers/base.py: the venue scrapers' deduplication                     *)
(***************************************************************************)
\* a member dict of the venue scrapers
MemberDict(full_name, committee_type, position, affiliation, role_title) ==
  [full_name |-> full_name, committee_type |-> committee_type,
   position |-> position, affiliation |-> affiliation,
   role_title |-> role_title]

member_key(member) ==
  <<strip(lower(member.full_name)), member.committee_type, member.position>>

RECURSIVE KeepFirstByKey(_, _)
KeepFirstByKey(members, seen) ==
  IF members = <<>> THEN <<>>
  ELSE LET key == member_key(Head(members))
       IN  IF key \notin seen
             THEN <<Head(members)>> \o KeepFirstByKey(Tail(members), seen \cup {key})
             ELSE KeepFirstByKey(Tail(members), seen)

base_deduplicate_members(members) == KeepFirstByKey(members, {})

\* normalize_name of the venue scrapers
base_normalize_name(name) == join(<<" ">>, split(name))

base_normalize_affiliation(affiliation) ==
  LET normalized == join(<<" ">>, split(affiliation))
  IN  IF normalized = <<>> THEN None ELSE Some(normalized)

role_patterns ==
  <<<<<<"g", "e", "n", "e", "r", "a", "l", " ", "c", "h", "a", "i", "r">>, <<"G", "e", "n", "e", "r", "a", "l", " ", "C", "h", "a", "i", "r">>>>,
    <<<<"c", "o", "n", "f", "e", "r", "e", "n", "c", "e", " ", "c", "h", "a", "i", "r">>, <<"G", "e", "n", "e", "r", "a", "l", " ", "C", "h", "a", "i", "r">>>>,
    <<<<"p", "r", "o", "g", "r", "a", "m", " ", "c", "h", "a", "i", "r">>, <<"P", "r", "o", "g", "r", "a", "m", " ", "C", "h", "a", "i", "r">>>>,
    <<<<"p", "r", "o", "g", "r", "a", "m", "m", "e", " ", "c", "h", "a", "i", "r">>, <<"P", "r", "o", "g", "r", "a", "m", " ", "C", "h", "a", "i", "r">>>>,
    <<<<"s", "t", "e", "e", "r", "i", "n", "g", " ", "c", "h", "a", "i", "r">>, <<"S", "t", "e", "e", "r", "i", "n", "g", " ", "C", "h", "a", "i", "r">>>>,
    <<<<"l", "o", "c", "a", "l", " ", "c", "h", "a", "i", "r">>, <<"L", "o", "c", "a", "l", " ", "C", "h", "a", "i", "r">>>>,
    <<<<"p", "u", "b", "l", "i", "c", "i", "t", "y", " ", "c", "h", "a", "i", "r">>, <<"P", "u", "b", "l", "i", "c", "i", "t", "y", " ", "C", "h", "a", "i", "r">>>>,
    <<<<"w", "e", "b", " ", "c", "h", "a", "i", "r">>, <<"W", "e", "b", " ", "C", "h", "a", "i", "r">>>>,
    <<<<"w", "e", "b", "m", "a", "s", "t", "e", "r">>, <<"W", "e", "b", " ", "C", "h", "a", "i", "r">>>>,
    <<<<"t", "e", "c", "h", "n", "i", "c", "a", "l", " ", "o", "p", "e", "r", "a", "t", "i", "o", "n", "s", " ", "c", "h", "a", "i", "r">>, <<"T", "e", "c", "h", "n", "i", "c", "a", "l", " ", "O", "p", "e", "r", "a", "t", "i", "o", "n", "s", " ", "C", "h", "a", "i", "r">>>>,
    <<<<"l", "o", "c", "a", "l", " ", "a", "r", "r", "a", "n", "g", "e", "m", "e", "n", "t", "s">>, <<"L", "o", "c", "a", "l", " ", "A", "r", "r", "a", "n", "g", "e", "m", "e", "n", "t", "s", " ", "C", "h", "a", "i", "r">>>>,
    <<<<"r", "e", "g", "i", "s", "t", "r", "a", "t", "i", "o", "n", " ", "c", "h", "a", "i", "r">>, <<"R", "e", "g", "i", "s", "t", "r", "a", "t", "i", "o", "n", " ", "C", "h", "a", "i", "r">>>>,
    <<<<"p", "r", "o", "c", "e", "e", "d", "i", "n", "g", "s", " ", "c", "h", "a", "i", "r">>, <<"P", "r", "o", "c", "e", "e", "d", "i", "n", "g", "s", " ", "C", "h", "a", "i", "r">>>>,
    <<<<"p", "o", "s", "t", "e", "r", " ", "c", "h", "a", "i", "r">>, <<"P", "o", "s", "t", "e", "r", " ", "C", "h", "a", "i", "r">>>>,
    <<<<"t", "u", "t", "o", "r", "i", "a", "l", " ", "c", "h", "a", "i", "r">>, <<"T", "u", "t", "o", "r", "i", "a", "l", " ", "C", "h", "a", "i", "r">>>>,
    <<<<"w", "o", "r", "k", "s", "h", "o", "p", " ", "c", "h", "a", "i", "r">>, <<"W", "o", "r", "k", "s", "h", "o", "p", " ", "C", "h", "a", "i", "r">>>>,
    <<<<"s", "p", "o", "n", "s", "o", "r", "s", "h", "i", "p", " ", "c", "h", "a", "i", "r">>, <<"S", "p", "o", "n", "s", "o", "r", "s", "h", "i", "p", " ", "C", "h", "a", "i", "r">>>>,
    <<<<"f", "i", "n", "a", "n", "c", "e", " ", "c", "h", "a", "i", "r">>, <<"F", "i", "n", "a", "n", "c", "e", " ", "C", "h", "a", "i", "r">>>>,
    <<<<"s", "o", "c", "i", "a", "l", " ", "e", "v", "e", "n", "t", "s", " ", "c", "h", "a", "i", "r">>, <<"S", "o", "c", "i", "a", "l", " ", "E", "v", "e", "n", "t", "s", " ", "C", "h", "a", "i", "r">>>>>>

\* the title of the first pattern that occurs in combined
FirstRoleTitle(combined) ==
  LET found == {i \in DOMAIN role_patterns : Contains(combined, role_patterns[i][1])}
  IN  IF found = {} THEN None
      ELSE Some(role_patterns[CHOOSE i \in found : \A j \in found : i <= j][2])

base_detect_role_title(text, heading_text) ==
  FirstRoleTitle(lower(heading_text \o <<" ">> \o text))

(***************************************************************************)
(* scrapers/qcrypt.py: _parse_plain_text                                   *)
(***************************************************************************)
IsDash(c) == c \in {"endash", "emdash", "-"}

IsOpener(c) == c \in {"(", "["}

IsCloser(c) == c \in {")", "]"}

\* the first position from i on that holds no white space; Len(s) + 1 if none
NextNonSpace(s, i) ==
  LET rest == {j \in i..Len(s) : ~isspace(s[j])}
  IN  IF rest = {} THEN Len(s) + 1 ELSE CHOOSE j \in rest : \A k \in rest : j <= k

\* the first closing bracket after position o; 0 if none
FirstCloser(s, o) ==
  LET closers == {j \in (o + 1)..Len(s) : IsCloser(s[j])}
  IN  IF closers = {} THEN 0 ELSE CHOOSE j \in closers : \A k \in closers : j <= k

\* re.search(r'\s+[–—-]\s*(.+)$', text): where the match starts; 0 if none
DashMatchStart(text) ==
  LET starts == {i \in 1..Len(text) : isspace(text[i]) /\ NextNonSpace(text, i) < Len(text) /\ IsDash(text[NextNonSpace(text, i)])}
  IN  IF starts = {} THEN 0 ELSE CHOOSE i \in starts : \A k \in starts : i <= k

\* dash_match.group(1).strip().lower()
DashRoleText(text, start) ==
  lower(strip(SubSeq(text, NextNonSpace(text, start) + 1, Len(text))))

ChairDesignation(role_text, position) ==
  IF Contains(role_text, <<"c", "o", "-", "c", "h", "a", "i", "r">>) \/ Contains(role_text, <<"c", "o", " ", "c", "h", "a", "i", "r">>) THEN "co-chair"
  ELSE IF Contains(role_text, <<"c", "h", "a", "i", "r">>) THEN "chair"
  ELSE position

\* re.match(r'^(.+?)\s*[\(\[]([^\)\]]+)[\)\]]\s*(.*)$', text): where group 1
\* ends; 0 if there is no match
BracketMatchEnd(text) ==
  LET ends == {e \in 1..Len(text) : NextNonSpace(text, e + 1) <= Len(text) /\ IsOpener(text[NextNonSpace(text, e + 1)]) /\ FirstCloser(text, NextNonSpace(text, e + 1)) >= NextNonSpace(text, e + 1) + 2}
  IN  IF ends = {} THEN 0 ELSE CHOOSE e \in ends : \A k \in ends : e <= k

local_role_keywords ==
  {<<"w", "e", "b", "m", "a", "s", "t", "e", "r">>, <<"w", "e", "b">>, <<"p", "o", "s", "t", "e", "r">>, <<"s", "e", "s", "s", "i", "o", "n">>, <<"d", "i", "n", "n", "e", "r">>, <<"c", "o", "o", "r", "d", "i", "n", "a", "t", "o", "r">>,
   <<"p", "a", "c", "k", "a", "g", "e">>, <<"r", "u", "m", "p">>, <<"s", "u", "p", "p", "o", "r", "t">>, <<"v", "i", "s", "a">>, <<"r", "e", "g", "i", "s", "t", "r", "a", "t", "i", "o", "n">>, <<"i", "n", "d", "u", "s", "t", "r", "y">>,
   <<"s", "t", "u", "d", "e", "n", "t">>, <<"g", "e", "n", "e", "r", "a", "l", " ", "c", "h", "a", "i", "r">>, <<"l", "e", "a", "d">>, <<"v", "i", "d", "e", "o">>, <<"s", "l", "i", "d", "e", "s">>,
   <<"m", "a", "g", "i", "c">>, <<"c", "o", "n", "t", "a", "c", "t">>, <<"w", "e", "l", "c", "o", "m", "e">>}

\* a local organizing committee's parenthetical that describes a role
IsLocalRole(committee_type, paren_lower) ==
  /\ committee_type = "local_organizing"
  /\ \E kw \in local_role_keywords : Contains(paren_lower, kw)

is_position_info(paren_lower) ==
  \E indicator \in {<<"c", "h", "a", "i", "r">>, <<"c", "o", "-", "c", "h", "a", "i", "r">>, <<"c", "o", " ", "c", "h", "a", "i", "r">>} : Contains(paren_lower, indicator)

BracketAffiliation(paren_content, committee_type) ==
  IF IsLocalRole(committee_type, lower(paren_content)) \/ is_position_info(lower(paren_content))
    THEN None
    ELSE base_normalize_affiliation(paren_content)

BracketPosition(paren_lower, committee_type, position) ==
  IF IsLocalRole(committee_type, paren_lower)
    THEN IF \/ Contains(paren_lower, <<"g", "e", "n", "e", "r", "a", "l", " ", "c", "h", "a", "i", "r">>)
            \/ Contains(paren_lower, <<"l", "e", "a", "d">>)
            \/ Contains(paren_lower, <<"c", "o", "o", "r", "d", "i", "n", "a", "t", "o", "r">>) THEN "chair"
         ELSE IF Contains(paren_lower, <<"c", "o", "-", "c", "h", "a", "i", "r">>) \/ Contains(paren_lower, <<"c", "o", " ", "c", "h", "a", "i", "r">>)
           THEN "co-chair"
         ELSE position
  ELSE IF is_position_info(paren_lower)
    THEN ChairDesignation(paren_lower, position)
  ELSE position

\* re.match(r'[\(\[]([^\)\]]+)[\)\]]', remaining) and the position it names
ExtraPosition(remaining, position) ==
  IF remaining = <<>> \/ position # "member" THEN position
  ELSE IF ~(IsOpener(remaining[1]) /\ FirstCloser(remaining, 1) >= 3) THEN position
  ELSE LET role_text == lower(SubSeq(remaining, 2, FirstCloser(remaining, 1) - 1))
       IN  IF Contains(role_text, <<"l", "e", "a", "d">>) \/ Contains(role_text, <<"c", "h", "a", "i", "r">>) THEN "chair"
           ELSE IF Contains(role_text, <<"c", "o", "-", "c", "h", "a", "i", "r">>) \/ Contains(role_text, <<"c", "o", " ", "c", "h", "a", "i", "r">>)
             THEN "co-chair"
           ELSE position

qcrypt_detect_position(name, role_text, heading_text) ==
  LET combined == lower(heading_text \o <<" ">> \o role_text)
  IN  IF Contains(combined, <<"c", "o", "-", "c", "h", "a", "i", "r">>) \/ Contains(combined, <<"c", "o", " ", "c", "h", "a", "i", "r">>) THEN "co-chair"
      ELSE IF Contains(combined, <<"c", "h", "a", "i", "r">>) THEN "chair"
      ELSE "member"

\* the record of _parse_plain_text, from the fields found in text
PlainTextMember(text, name, affiliation, position, committee_type, heading_text) ==
  Some(MemberDict(name, committee_type,
                  IF position = "member"
                    THEN qcrypt_detect_position(name, text, heading_text)
                    ELSE position,
                  affiliation, base_detect_role_title(text, heading_text)))

\* the name and affiliation patterns, text being the entry without its job
\* description
ParseNameAffiliation(text, position, committee_type, heading_text) ==
  IF BracketMatchEnd(text) # 0
    THEN LET e == BracketMatchEnd(text)
             o == NextNonSpace(text, e + 1)
             c == FirstCloser(text, o)
             paren_content == SubSeq(text, o + 1, c - 1)
             remaining == strip(SubSeq(text, c + 1, Len(text)))
         IN  PlainTextMember(text, base_normalize_name(SubSeq(text, 1, e)),
                             BracketAffiliation(paren_content, committee_type),
                             ExtraPosition(remaining,
                               BracketPosition(lower(paren_content), committee_type, position)),
                             committee_type, heading_text)
  ELSE LET parts == SplitOnce(text, <<",">>)
       IN  IF Len(parts) = 2
             THEN PlainTextMember(text, base_normalize_name(parts[1]),
                                  base_normalize_affiliation(parts[2]),
                                  position, committee_type, heading_text)
             ELSE PlainTextMember(text, base_normalize_name(text), None,
                                  position, committee_type, heading_text)

qcrypt_blacklist ==
  {<<"t", "w", "i", "t", "t", "e", "r">>, <<"y", "o", "u", "t", "u", "b", "e">>, <<"l", "i", "n", "k", "e", "d", "i", "n">>, <<"s", "t", "e", "e", "r", "i", "n", "g", " ", "c", "o", "m", "m", "i", "t", "t", "e", "e">>,
   <<"p", "r", "o", "g", "r", "a", "m", " ", "c", "o", "m", "m", "i", "t", "t", "e", "e">>, <<"o", "r", "g", "a", "n", "i", "z", "i", "n", "g", " ", "c", "o", "m", "m", "i", "t", "t", "e", "e">>}

qcrypt_parse_plain_text(text, committee_type, heading_text) ==
  IF Len(text) < 3 \/ Len(text) > 300 THEN None
  ELSE IF (\E item \in qcrypt_blacklist : Contains(lower(text), item)) /\ Len(text) < 100
    THEN None
  ELSE IF DashMatchStart(text) # 0
    THEN ParseNameAffiliation(SubSeq(text, 1, DashMatchStart(text) - 1),
                              ChairDesignation(DashRoleText(text, DashMatchStart(text)), "member"),
                              committee_type, heading_text)
  ELSE ParseNameAffiliation(text, "member", committee_type, heading_text)

(***************************************************************************)
(* scrape_talks: the three normalize_title functions                       *)
(***************************************************************************)
StartsWith(s, p) == Len(s) >= Len(p) /\ SubSeq(s, 1, Len(p)) = p

\* the length of the leading run of digits
RECURSIVE DigitRun(_)
DigitRun(s) ==
  IF s = <<>> \/ Head(s) \notin DigitSet THEN 0 ELSE 1 + DigitRun(Tail(s))

\* unicodedata.normalize('NFD', s)
RECURSIVE NFD(_)
NFD(s) ==
  IF s = <<>> THEN <<>>
  ELSE (IF Head(s) = "eacute" THEN <<"e", "acute">>
        ELSE IF Head(s) = "Eacute" THEN <<"E", "acute">>
        ELSE <<Head(s)>>) \o NFD(Tail(s))

\* a combining mark: category Mn, unicodedata.combining(c) # 0
iscombining(c) == c = "acute"

without_diacritics(s) == SelectSeq(NFD(s), LAMBDA c : ~iscombining(c))

\* What ^(TUTORIAL|PLENARY|SHORT PLENARY \d+|INVITED PLENARY \d*) matches at
\* the start of the title, ignoring case: its length, 0 for no match.
SessionWordLen(title) ==
  LET t == lower(title)
      digits(n) == DigitRun(SubSeq(title, n + 1, Len(title)))
  IN  IF StartsWith(t, <<"t", "u", "t", "o", "r", "i", "a", "l">>) THEN 8
      ELSE IF StartsWith(t, <<"p", "l", "e", "n", "a", "r", "y">>) THEN 7
      ELSE IF StartsWith(t, <<"s", "h", "o", "r", "t", " ", "p", "l", "e", "n", "a", "r", "y", " ">>) /\ digits(14) >= 1
        THEN 14 + digits(14)
      ELSE IF StartsWith(t, <<"i", "n", "v", "i", "t", "e", "d", " ", "p", "l", "e", "n", "a", "r", "y", " ">>) THEN 16 + digits(16)
      ELSE 0

\* re.sub(r'^(...):?\s*', '', title, flags=re.IGNORECASE)
strip_session_prefix(title) ==
  LET n == SessionWordLen(title)
      rest == SubSeq(title, n + 1, Len(title))
  IN  IF n = 0 THEN title
      ELSE IF rest # <<>> /\ Head(rest) = ":" THEN lstrip(Tail(rest))
      ELSE lstrip(rest)

\* parse_schedule.py
normalize_title_parse_schedule(title) ==
  LET stripped == strip_session_prefix(title)
      lowered == lower(without_diacritics(stripped))
      \* re.sub(r'[^\w\s]', '', title)
      kept == SelectSeq(lowered, LAMBDA c : isword(c) \/ isspace(c))
  IN  join(<<" ">>, split(kept))

\* re.sub(r'\s*\[.*?\]\s*', ' ', title): each bracketed annotation, from the
\* white space before it to the white space after its first closing bracket
RECURSIVE strip_brackets(_)
strip_brackets(s) ==
  LET i == Find(s, <<"[">>)
      j == IF i = 0 THEN 0 ELSE Find(SubSeq(s, i + 1, Len(s)), <<"]">>)
  IN  IF i = 0 \/ j = 0 THEN s
      ELSE rstrip(SubSeq(s, 1, i - 1)) \o <<" ">>
             \o strip_brackets(lstrip(SubSeq(s, i + j + 1, Len(s))))

\* generate_csv_with_schedule.py
normalize_title_generate_csv(title) ==
  IF title = <<>> THEN <<>>
  ELSE LET lowercased == lower(without_diacritics(strip_brackets(title)))
           cleaned == [k \in 1..Len(lowercased) |->
                         IF isalnum(lowercased[k]) \/ isspace(lowercased[k])
                           THEN lowercased[k] ELSE " "]
       IN  join(<<" ">>, split(cleaned))

\* re.sub(r'\s+', ' ', s)
RECURSIVE collapse_spaces(_)
collapse_spaces(s) ==
  IF s = <<>> THEN <<>>
  ELSE IF isspace(Head(s)) THEN <<" ">> \o collapse_spaces(lstrip(s))
  ELSE <<Head(s)>> \o collapse_spaces(Tail(s))

\* convert_tqc_to_csv.py
normalize_title_convert_tqc(title) ==
  LET lowered == lower(title)
      spaced == [k \in 1..Len(lowered) |->
                   IF isword(lowered[k]) \/ isspace(lowered[k])
                     THEN lowered[k] ELSE " "]
  IN  strip(collapse_spaces(spaced))

(***************************************************************************)
(* convert_tqc_to_csv.py: merge_schedule_with_talks                        *)
(***************************************************************************)
\* s.split(sep)
RECURSIVE SplitAll(_, _)
SplitAll(s, sep) ==
  LET parts == SplitOnce(s, sep)
  IN  IF Len(parts) = 1 THEN parts
      ELSE <<parts[1]>> \o SplitAll(parts[2], sep)

\* set(title.split())
title_words(title) == Range(split(title))

\* A score is the fraction num / den.  The code computes it in floating point;
\* for word sets of the sizes of titles the comparisons come out the same.
Score(num, den) == [num |-> num, den |-> den]

ScoreGreater(a, b) == a.num * b.den > b.num * a.den

ArxivBonus == 100
TitleWeight == 50
AcceptThreshold == 20

\* lines 438-456: the score of one schedule entry for one talk
match_score(talk, sched) ==
  LET sched_arxiv_ids == Range(SplitAll(sched.arxiv_ids, <<",", " ">>)) \ {<<>>}
      talk_arxiv_id == strip(talk.arxiv_ids)
      bonus == IF talk_arxiv_id # <<>> /\ talk_arxiv_id \in sched_arxiv_ids
                 THEN ArxivBonus ELSE 0
      sched_words == title_words(normalize_title_convert_tqc(sched.title_from_summary))
      talk_words == title_words(normalize_title_convert_tqc(talk.title))
      overlap == Cardinality(sched_words \cap talk_words)
      union == Cardinality(sched_words \cup talk_words)
  IN  IF sched_words # {} /\ talk_words # {}
        THEN Score(bonus * union + TitleWeight * overlap, union)
        ELSE Score(bonus, 1)

\* (mutant) a later schedule entry with the same score replaces the best one
RECURSIVE best_match_from_LastOfTies(_, _, _, _)
best_match_from_LastOfTies(talk, schedule, k, best) ==
  IF k > Len(schedule) THEN best
  ELSE LET score == match_score(talk, schedule[k])
       IN  IF ~ScoreGreater(best[2], score)
              /\ ScoreGreater(score, Score(AcceptThreshold, 1))
             THEN best_match_from_LastOfTies(talk, schedule, k + 1, <<Some(schedule[k]), score>>)
             ELSE best_match_from_LastOfTies(talk, schedule, k + 1, best)

\* lines 434-460: <<best_match, best_score>> after the schedule entries from k on
RECURSIVE best_match_from(_, _, _, _)
best_match_from(talk, schedule, k, best) ==
  IF k > Len(schedule) THEN best
  ELSE LET score == match_score(talk, schedule[k])
       IN  IF ScoreGreater(score, best[2])
              /\ ScoreGreater(score, Score(AcceptThreshold, 1))
             THEN best_match_from(talk, schedule, k + 1, <<Some(schedule[k]), score>>)
             ELSE best_match_from(talk, schedule, k + 1, best)

best_match(talk, schedule) ==
  best_match_from(talk, schedule, 1, <<None, Score(0, 1)>>)[1]

\* (mutant) a talk without a match loses its speakers
merged_talk_ClearsUnmatched(talk, schedule) ==
  LET best == best_match(talk, schedule)
      withSchedule == [talk EXCEPT !.scheduled_date = best[1].date,
                                   !.scheduled_time = best[1].time,
                                   !.duration_minutes = best[1].duration_minutes]
  IN  IF best = None THEN [talk EXCEPT !.speakers = <<>>]
      ELSE IF best[1].speaker # <<>>
        THEN [withSchedule EXCEPT !.speakers = best[1].speaker]
        ELSE withSchedule

\* lines 463-477: the talk with the schedule data of its match
merged_talk(talk, schedule) ==
  LET best == best_match(talk, schedule)
      withSchedule == [talk EXCEPT !.scheduled_date = best[1].date,
                                   !.scheduled_time = best[1].time,
                                   !.duration_minutes = best[1].duration_minutes]
  IN  IF best = None THEN talk
      ELSE IF best[1].speaker # <<>>
        THEN [withSchedule EXCEPT !.speakers = best[1].speaker]
        ELSE withSchedule

\* (mutant) a global assignment: an event attached to a talk is taken out of
\* the schedule for the talks after it
RECURSIVE MergeClaimingOnce(_, _)
MergeClaimingOnce(talks, schedule) ==
  IF talks = <<>> THEN <<>>
  ELSE LET best == best_match(Head(talks), schedule)
           left == IF best = None THEN schedule
                   ELSE SelectSeq(schedule, LAMBDA s : s # best[1])
       IN  <<merged_talk(Head(talks), schedule)>> \o MergeClaimingOnce(Tail(talks), left)

merge_schedule_with_talks_ClaimsOnce(talks, schedule) ==
  <<MergeClaimingOnce(talks, schedule),
    Cardinality({k \in 1..Len(talks) : best_match(talks[k], schedule) # None})>>

\* <<merged_talks, matched_count>>
merge_schedule_with_talks(talks, schedule) ==
  <<[k \in 1..Len(talks) |-> merged_talk(talks[k], schedule)],
    Cardinality({k \in 1..Len(talks) : best_match(talks[k], schedule) # None})>>

(***************************************************************************)
(* The document tree (BeautifulSoup).  An element is a record of its tag,  *)
(* its classes, the text it holds before its first child element, and its  *)
(* child elements.  The child sequences hold elements only: the pages      *)
(* modelled have no text between the elements of a region.                 *)
(***************************************************************************)
Element(tag, classes, text, kids) ==
  [tag |-> tag, classes |-> classes, text |-> text, kids |-> kids]

\* the element at a path of child indices below root
RECURSIVE NodeAt(_, _)
NodeAt(root, path) ==
  IF path = <<>> THEN root ELSE NodeAt(root.kids[Head(path)], Tail(path))

\* the paths of the elements below kids[i], kids[i + 1], ..., in document
\* order
RECURSIVE PathsFrom(_, _)
PathsFrom(kids, i) ==
  IF i > Len(kids) THEN <<>>
  ELSE LET below == PathsFrom(kids[i].kids, 1)
       IN  <<<<i>>>> \o [j \in 1..Len(below) |-> <<i>> \o below[j]]
             \o PathsFrom(kids, i + 1)

\* Tag.descendants, as paths
descendants(node) == PathsFrom(node.kids, 1)

\* Tag.children, as paths
children(node) == [i \in 1..Len(node.kids) |-> <<i>>]

\* the strings of an element in document order
RECURSIVE all_strings(_)
RECURSIVE StringsFrom(_, _)
StringsFrom(kids, i) ==
  IF i > Len(kids) THEN <<>>
  ELSE all_strings(kids[i]) \o StringsFrom(kids, i + 1)

all_strings(node) ==
  (IF node.text = <<>> THEN <<>> ELSE <<node.text>>)
    \o StringsFrom(node.kids, 1)

\* element.get_text()
get_text(node) == join(<<>>, all_strings(node))

\* element.get_text(sep, strip=True): the stripped strings that are not
\* empty, joined by sep
get_text_strip(node, sep) ==
  LET strings == all_strings(node)
      stripped == [i \in 1..Len(strings) |-> strip(strings[i])]
  IN  join(sep, SelectSeq(stripped, LAMBDA s : s # <<>>))

\* the paths below node of the elements find_all(tags, class_=classes,
\* recursive=recursive) returns
find_all(node, tags, classes, recursive) ==
  SelectSeq(IF recursive THEN descendants(node) ELSE children(node),
            LAMBDA p : /\ NodeAt(node, p).tag \in tags
                       /\ classes \subseteq NodeAt(node, p).classes)

\* find(tag, class_=classes, recursive=recursive): the first such element
find(node, tag, classes, recursive) ==
  LET found == find_all(node, {tag}, classes, recursive)
  IN  IF found = <<>> THEN None ELSE Some(NodeAt(node, found[1]))

\* a compound CSS selector: a tag ("*" for any) and classes
Compound(tag, classes) == [tag |-> tag, classes |-> classes]

CompoundMatches(node, compound) ==
  /\ compound.tag = "*" \/ node.tag = compound.tag
  /\ compound.classes \subseteq node.classes

\* "subject", or "ancestor subject" with a descendant combinator
Selector(ancestor, subject) == [ancestor |-> ancestor, subject |-> subject]

\* soup.select(selector): the matching elements in document order
select(soup, selector) ==
  LET matches(p) ==
        /\ CompoundMatches(NodeAt(soup, p), selector.subject)
        /\ \/ selector.ancestor = None
           \/ \E k \in 1..(Len(p) - 1) :
                CompoundMatches(NodeAt(soup, SubSeq(p, 1, k)),
                                selector.ancestor[1])
      paths == SelectSeq(descendants(soup), matches)
  IN  [i \in 1..Len(paths) |-> NodeAt(soup, paths[i])]

\* the elements after the element at path among the children of its parent
next_siblings(soup, path) ==
  LET parent == NodeAt(soup, SubSeq(path, 1, Len(path) - 1))
  IN  SubSeq(parent.kids, path[Len(path)] + 1, Len(parent.kids))

(***************************************************************************)
(* scrape_committees.py: from a page to its committee members              *)
(***************************************************************************)
MinEntryLen == 3
MaxEntryLen == 300

\* (mutant) only the texts that are too short are skipped
SkippedByLength_OnlyShort(text) == Len(text) < MinEntryLen

\* the guard of the selector loops: len(text) < 3 or len(text) > 300
SkippedByLength(text) == Len(text) < MinEntryLen \/ Len(text) > MaxEntryLen

\* the guard of the list-item loops: 3 <= len(text) <= 300
LengthInRange(text) == MinEntryLen <= Len(text) /\ Len(text) <= MaxEntryLen

\* the records parse_member_entry returns for the texts, in order (None is
\* the empty sequence and Some(member) the sequence of the one member)
RECURSIVE ParsedEntries(_, _)
ParsedEntries(texts, committee_type) ==
  IF texts = <<>> THEN <<>>
  ELSE parse_member_entry(Head(texts), committee_type)
         \o ParsedEntries(Tail(texts), committee_type)

\* get_text(' ', strip=True) of each element
ElementTexts(elements) ==
  [i \in 1..Len(elements) |-> get_text_strip(elements[i], <<" ">>)]

\* the members a selector loop appends for the selected elements
SelectedMembers(elements, committee_type) ==
  ParsedEntries(SelectSeq(ElementTexts(elements),
                          LAMBDA text : ~SkippedByLength(text)),
                committee_type)

\* the members a list-item loop appends for the items
ListItemMembers(items, committee_type) ==
  ParsedEntries(SelectSeq(ElementTexts(items), LengthInRange),
                committee_type)

role_keywords ==
  <<<<"c", "h", "a", "i", "r">>, <<"m", "e", "m", "b", "e", "r">>, <<"c", "o", "-", "c", "h", "a", "i", "r">>, <<"a", "r", "e", "a", " ", "c", "h", "a", "i", "r">>, <<"s", "u", "p", "p", "o", "r", "t">>>>

\* (mutant) a role heading is a heading that is exactly one of the keywords
IsRoleHeading_ExactKeyword(h4_text) == lower(h4_text) \in Range(role_keywords)

IsRoleHeading(h4_text) ==
  \E k \in 1..Len(role_keywords) : Contains(lower(h4_text), role_keywords[k])

\* the loop over the h4 texts of a card: <<affiliation, role_text>>
RECURSIVE CardFields(_, _, _)
CardFields(h4_texts, affiliation, role_text) ==
  IF h4_texts = <<>> THEN <<affiliation, role_text>>
  ELSE IF IsRoleHeading(Head(h4_texts))
    THEN CardFields(Tail(h4_texts), affiliation, Head(h4_texts))
  ELSE IF affiliation = None \/ affiliation = Some(<<>>)
    THEN CardFields(Tail(h4_texts), Some(Head(h4_texts)), role_text)
  ELSE CardFields(Tail(h4_texts), affiliation, role_text)

\* the member built for a card that has a name
CardMember(name, committee_type, position, affiliation) ==
  IF name # <<>>
    THEN <<CommitteeMember(clean_name(name), committee_type, position[1],
                           position[2], affiliation)>>
    ELSE <<>>

\* the card of the name and the h4 fields <<affiliation, role_text>>
CardOf(name, fields, committee_type) ==
  CardMember(name, committee_type,
             detect_position(name, fields[2], fields[2]), fields[1])

\* the h4 texts below the label
CardHeadings(label, h4_tags) ==
  [i \in 1..Len(h4_tags) |-> get_text_strip(NodeAt(label, h4_tags[i]), <<>>)]

\* the name of the card: the text of its h3, empty when there is none
CardName(h3) == IF h3 # None THEN get_text_strip(h3[1], <<>>) ELSE <<>>

\* the member of a structured card (an li with a div.label), if it has a name
StructuredCard(label, committee_type) ==
  CardOf(CardName(find(label, "h3", {}, TRUE)),
         CardFields(CardHeadings(label, find_all(label, {"h4"}, {}, TRUE)),
                    None, <<>>),
         committee_type)

\* the loop over the items of ul.members
RECURSIVE MemberCards(_, _)
MemberCards(items, committee_type) ==
  IF items = <<>> THEN <<>>
  ELSE LET li == Head(items)
           label == find(li, "div", {"label"}, TRUE)
       IN  (IF label # None
              THEN StructuredCard(label[1], committee_type)
              ELSE ListItemMembers(<<li>>, committee_type))
             \o MemberCards(Tail(items), committee_type)

\* the direct li children of a list
ListItems(list) ==
  LET items == find_all(list, {"li"}, {}, FALSE)
  IN  [i \in 1..Len(items) |-> NodeAt(list, items[i])]

non_member_lists == {"menu", "social", "socials"}

\* the members one sibling of the heading contributes
SiblingMembers(current, committee_type) ==
  LET member_section ==
        IF current.tag = "section" /\ "members" \in current.classes
          THEN Some(current)
          ELSE find(current, "section", {"members"}, FALSE)
  IN  IF member_section # None
        THEN LET member_list ==
                   find(member_section[1], "ul", {"members"}, TRUE)
             IN  IF member_list # None
                   THEN MemberCards(ListItems(member_list[1]), committee_type)
                   ELSE <<>>
      ELSE IF current.tag = "ul"
        THEN IF current.classes \cap non_member_lists = {}
               THEN ListItemMembers(ListItems(current), committee_type)
               ELSE <<>>
      ELSE <<>>

\* the walk over the siblings that follow the heading
RECURSIVE WalkSiblings(_, _, _)
WalkSiblings(siblings, end_heading, committee_type) ==
  IF siblings = <<>> THEN <<>>
  ELSE IF end_heading # None /\ Head(siblings) = end_heading[1] THEN <<>>
  ELSE IF Head(siblings).tag = "h2" THEN <<>>
  ELSE SiblingMembers(Head(siblings), committee_type)
         \o WalkSiblings(Tail(siblings), end_heading, committee_type)

extract_members_between_headings(soup, start_heading, end_heading, committee_type) ==
  deduplicate_members(
    WalkSiblings(next_siblings(soup, start_heading), end_heading,
                 committee_type))

heading_tags == {"h1", "h2", "h3", "h4", "h5", "h6"}

\* int(heading.name[1])
heading_level(heading) ==
  CASE heading.tag = "h1" -> 1
    [] heading.tag = "h2" -> 2
    [] heading.tag = "h3" -> 3
    [] heading.tag = "h4" -> 4
    [] heading.tag = "h5" -> 5
    [] heading.tag = "h6" -> 6

\* the first of the later headings at the same or a higher level, if any
NextHeading(soup, headings, idx) ==
  LET lower_or_same(h) ==
        heading_level(NodeAt(soup, h))
          <= heading_level(NodeAt(soup, headings[idx]))
      later == SelectSeq(SubSeq(headings, idx + 1, Len(headings)),
                         lower_or_same)
  IN  IF later = <<>> THEN None ELSE Some(NodeAt(soup, later[1]))

\* whether the heading's text contains one of the patterns
HeadingMatches(heading, section_patterns) ==
  \E k \in 1..Len(section_patterns) :
     Contains(lower(get_text(heading)), section_patterns[k])

\* "if members: return members", and otherwise the rest of the loop
ReturnIfAny(members, otherwise) ==
  IF members # <<>> THEN Some(members) ELSE otherwise

\* the loop of parse_section_based over headings[idx], headings[idx + 1], ...:
\* the members of the first matching heading that has any, or None
RECURSIVE SectionsFrom(_, _, _, _, _)
SectionsFrom(soup, headings, idx, section_patterns, committee_type) ==
  IF idx > Len(headings) THEN None
  ELSE IF HeadingMatches(NodeAt(soup, headings[idx]), section_patterns)
    THEN ReturnIfAny(
           extract_members_between_headings(
             soup, headings[idx], NextHeading(soup, headings, idx),
             committee_type),
           SectionsFrom(soup, headings, idx + 1, section_patterns,
                        committee_type))
  ELSE SectionsFrom(soup, headings, idx + 1, section_patterns, committee_type)

parse_section_based(soup, section_patterns, committee_type) ==
  SectionsFrom(soup, find_all(soup, heading_tags, {}, TRUE), 1,
               section_patterns, committee_type)

section_patterns_of(committee_type) ==
  CASE committee_type = "PC" ->
         <<<<"p", "r", "o", "g", "r", "a", "m", " ", "c", "o", "m", "m", "i", "t", "t", "e", "e">>, <<"p", "c", " ", "m", "e", "m", "b", "e", "r", "s">>, <<"p", "r", "o", "g", "r", "a", "m", "m", "e", " ", "c", "o", "m", "m", "i", "t", "t", "e", "e">>>>
    [] committee_type = "OC" ->
         <<<<"o", "r", "g", "a", "n", "i", "z", "i", "n", "g", " ", "c", "o", "m", "m", "i", "t", "t", "e", "e">>, <<"o", "r", "g", "a", "n", "i", "s", "i", "n", "g", " ", "c", "o", "m", "m", "i", "t", "t", "e", "e">>,
           <<"l", "o", "c", "a", "l", " ", "o", "r", "g", "a", "n", "i", "z", "i", "n", "g", " ", "c", "o", "m", "m", "i", "t", "t", "e", "e">>, <<"l", "o", "c", "a", "l", " ", "o", "r", "g", "a", "n", "i", "s", "i", "n", "g", " ", "c", "o", "m", "m", "i", "t", "t", "e", "e">>,
           <<"o", "r", "g", "a", "n", "i", "z", "a", "t", "i", "o", "n">>, <<"o", "r", "g", "a", "n", "i", "s", "e", "r", "s">>, <<"o", "r", "g", "a", "n", "i", "z", "e", "r", "s">>>>
    [] committee_type = "SC" -> <<<<"s", "t", "e", "e", "r", "i", "n", "g", " ", "c", "o", "m", "m", "i", "t", "t", "e", "e">>, <<"s", "c", " ", "m", "e", "m", "b", "e", "r", "s">>>>
    [] OTHER -> <<>>

specific_selectors ==
  <<Selector(None, Compound("*", {"committee-member"})),
    Selector(None, Compound("*", {"person"})),
    Selector(None, Compound("*", {"team-member"})),
    Selector(None, Compound("div", {"member"})),
    Selector(None, Compound("div", {"speaker"}))>>

generic_selectors ==
  <<Selector(Some(Compound("ul", {})), Compound("li", {})),
    Selector(Some(Compound("div", {"content"})), Compound("p", {})),
    Selector(Some(Compound("article", {})), Compound("p", {}))>>

\* the loop over specific_selectors[k], ...: the deduplicated members of the
\* first selector after which members is not empty, or None
RECURSIVE SpecificFrom(_, _, _, _)
RECURSIVE AfterSelector(_, _, _, _, _)
AfterSelector(soup, k, elements, members, committee_type) ==
  IF elements # <<>> /\ members # <<>>
    THEN Some(deduplicate_members(members))
    ELSE SpecificFrom(soup, k + 1, members, committee_type)

SpecificFrom(soup, k, members, committee_type) ==
  IF k > Len(specific_selectors) THEN None
  ELSE AfterSelector(
         soup, k, select(soup, specific_selectors[k]),
         members \o SelectedMembers(select(soup, specific_selectors[k]),
                                    committee_type),
         committee_type)

\* the loop over generic_selectors[k], ...
RECURSIVE GenericFrom(_, _, _)
GenericFrom(soup, k, committee_type) ==
  IF k > Len(generic_selectors) THEN <<>>
  ELSE SelectedMembers(select(soup, generic_selectors[k]), committee_type)
         \o GenericFrom(soup, k + 1, committee_type)

\* "if section_members: return section_members", and likewise for the
\* members of the specific selectors
ReturnedOr(members, otherwise) ==
  IF members # None THEN members[1] ELSE otherwise

parse_committee_members(soup, committee_type) ==
  ReturnedOr(
    parse_section_based(soup, section_patterns_of(committee_type),
                        committee_type),
    ReturnedOr(SpecificFrom(soup, 1, <<>>, committee_type),
               deduplicate_members(GenericFrom(soup, 1, committee_type))))

\* (mutant) members is a list of the process, kept from one invocation to
\* the next
new_members_ProcessGlobal(held) == held

\* "members = []": a new list in every invocation, whatever the invocations
\* before it have collected (held)
new_members(held) == <<>>

\* parse_committee_members as an invocation in a process whose earlier
\* invocations have collected held
parse_committee_members_in_process(held, soup, committee_type) ==
  ReturnedOr(
    parse_section_based(soup, section_patterns_of(committee_type), committee_type),
    ReturnedOr(SpecificFrom(soup, 1, new_members(held), committee_type),
               deduplicate_members(new_members(held) \o GenericFrom(soup, 1, committee_type))))

(***************************************************************************)
(* scrape_talks/scrapers/qip.py: the tutorials of a QIP programme page     *)
(***************************************************************************)
\* A paragraph is the sequence of its children: strong elements, text nodes
\* and br elements (no element inside another)
Piece(tag, text) == [tag |-> tag, text |-> text]

\* p.get_text(strip=True): the stripped strings, the empty ones left out
paragraph_text(p) ==
  join(<<>>, <<>> \o [i \in 1..Len(p) |-> IF p[i].tag = "br" THEN <<>> ELSE strip(p[i].text)])

\* p.find_all('strong'), each as its get_text(strip=True)
strong_tags(p) ==
  LET strongs == SelectSeq(p, LAMBDA piece : piece.tag = "strong")
  IN  <<>> \o [i \in 1..Len(strongs) |-> strip(strongs[i].text)]

\* p.find('br')
br_tags(p) == \E i \in 1..Len(p) : p[i].tag = "br"

\* re.split(r'<br\s*/?>', str(p)): the part before the first br and the part
\* between the first br and the second
PartsAtBr(p) ==
  LET first == CHOOSE i \in 1..Len(p) : p[i].tag = "br" /\ \A j \in 1..(i - 1) : p[j].tag # "br"
      rest == SubSeq(p, first + 1, Len(p))
      later == {i \in 1..Len(rest) : rest[i].tag = "br"}
      second == IF later = {} THEN Len(rest) + 1 ELSE CHOOSE i \in later : \A j \in later : i <= j
  IN  <<SubSeq(p, 1, first - 1), SubSeq(rest, 1, second - 1)>>

date_header_words == {<<"J", "a", "n", "u", "a", "r", "y">>, <<"S", "a", "t", "u", "r", "d", "a", "y">>, <<"S", "u", "n", "d", "a", "y">>}

date_title_words ==
  date_header_words \cup
    {<<"M", "o", "n", "d", "a", "y">>, <<"T", "u", "e", "s", "d", "a", "y">>, <<"W", "e", "d", "n", "e", "s", "d", "a", "y">>,
     <<"T", "h", "u", "r", "s", "d", "a", "y">>, <<"F", "r", "i", "d", "a", "y">>}

MinTitleLen == 3
MinAbstractLen == 20

\* the truth value of a variable holding None or a string
Truthy(value) == value # None /\ value[1] # <<>>

TalkDict(title, abstract_parts, speaker, affiliation) ==
  [title |-> title,
   abstract |-> IF abstract_parts # <<>> THEN Some(strip(join(<<" ">>, abstract_parts))) ELSE None,
   speakers |-> <<speaker>>,
   affiliations |-> IF Truthy(affiliation) THEN <<affiliation[1]>> ELSE <<>>,
   paper_type |-> "tutorial", topics |-> <<>>, keywords |-> <<>>]

\* the variables of the loop over a section's paragraphs
NoCurrentTalk(talks) ==
  [talks |-> talks, current_speaker |-> None, current_affiliation |-> None,
   current_title |-> None, current_abstract_parts |-> <<>>]

\* "Save the previous talk": the talk appended when it has a speaker and a title
SaveTalk(st) ==
  IF Truthy(st.current_speaker) /\ Truthy(st.current_title)
    THEN Append(st.talks, TalkDict(st.current_title[1], st.current_abstract_parts,
                                   st.current_speaker[1], st.current_affiliation))
    ELSE st.talks

\* one iteration of "for p in paragraphs"
ParagraphStep(st, p) ==
  LET text == paragraph_text(p)
      strongs == strong_tags(p)
      saved == IF strongs # <<>> /\ br_tags(p) /\ Truthy(st.current_speaker)
                 THEN NoCurrentTalk(SaveTalk(st))
                 ELSE st
  IN  IF \E word \in date_header_words : Contains(text, word) THEN st
      ELSE IF br_tags(p) /\ strongs # <<>>
        THEN LET parts == PartsAtBr(p)
                 speaker_strong == strong_tags(parts[1])
             IN  [saved EXCEPT !.current_speaker = IF speaker_strong # <<>> THEN Some(speaker_strong[1]) ELSE @,
                               !.current_affiliation = Some(paragraph_text(parts[2]))]
      ELSE IF Len(strongs) = 1
        THEN IF Len(strongs[1]) > MinTitleLen /\ ~ \E word \in date_title_words : Contains(strongs[1], word)
               THEN [saved EXCEPT !.current_title = Some(strongs[1])]
               ELSE saved
      ELSE IF Len(text) > MinAbstractLen /\ \A i \in 1..Len(strongs) : strongs[i] = <<>>
        THEN [saved EXCEPT !.current_abstract_parts = Append(@, text)]
      ELSE saved

RECURSIVE ParagraphsFrom(_, _)
ParagraphsFrom(st, paragraphs) ==
  IF paragraphs = <<>> THEN st
  ELSE ParagraphsFrom(ParagraphStep(st, Head(paragraphs)), Tail(paragraphs))

\* QIPTalkScraper.parse_talk_data, body_sections being the paragraphs of
\* each div.ce-bodytext of the page
RECURSIVE qip_parse_talk_data_from(_, _)
qip_parse_talk_data_from(talks, body_sections) ==
  IF body_sections = <<>> THEN talks
  ELSE qip_parse_talk_data_from(SaveTalk(ParagraphsFrom(NoCurrentTalk(talks), Head(body_sections))), Tail(body_sections))

qip_parse_talk_data(body_sections) == qip_parse_talk_data_from(<<>>, body_sections)

\* BaseTalkScraper._deduplicate_talks: the first talk of every title, talks
\* with an empty title left out
RECURSIVE KeepFirstByTitle(_, _)
KeepFirstByTitle(talks, seen) ==
  IF talks = <<>> THEN <<>>
  ELSE LET key == strip(lower(Head(talks).title))
       IN  IF key # <<>> /\ key \notin seen
             THEN <<Head(talks)>> \o KeepFirstByTitle(Tail(talks), seen \cup {key})
             ELSE KeepFirstByTitle(Tail(talks), seen)

deduplicate_talks(talks) == KeepFirstByTitle(talks, {})

\* BaseTalkScraper.scrape of the QIP scraper, the page fetched
qip_talk_scrape(body_sections) == deduplicate_talks(qip_parse_talk_data(body_sections))

(***************************************************************************)
(* scrapers/qcrypt.py: the member lists of a QCrypt committee page         *)
(***************************************************************************)
\* s.replace(sub, '')
RECURSIVE RemoveAll(_, _)
RemoveAll(s, sub) ==
  LET found == {i \in 1..(Len(s) - Len(sub) + 1) : SubSeq(s, i, i + Len(sub) - 1) = sub}
  IN  IF sub = <<>> \/ found = {} THEN s
      ELSE LET i == CHOOSE i \in found : \A k \in found : i <= k
           IN  SubSeq(s, 1, i - 1) \o RemoveAll(SubSeq(s, i + Len(sub), Len(s)), sub)

\* re.search(r'[\(\[]([^\)\]]+)[\)\]]', s): where the match starts; 0 if none
ParenMatchStart(s) ==
  LET starts == {i \in 1..Len(s) : IsOpener(s[i]) /\ FirstCloser(s, i) >= i + 2}
  IN  IF starts = {} THEN 0 ELSE CHOOSE i \in starts : \A k \in starts : i <= k

\* re.sub(r'\s*[\(\[]([^\)\]]+)[\)\]]\s*', '', s)
RECURSIVE RemoveParens(_)
RemoveParens(s) ==
  IF ParenMatchStart(s) = 0 THEN s
  ELSE LET o == ParenMatchStart(s)
           before == {i \in 1..o : \A k \in i..(o - 1) : isspace(s[k])}
           from == CHOOSE i \in before : \A k \in before : i <= k
       IN  SubSeq(s, 1, from - 1) \o RemoveParens(SubSeq(s, NextNonSpace(s, FirstCloser(s, o) + 1), Len(s)))

\* re.sub(r'\S+@\S+', '', s): the words with an @ inside them removed
RECURSIVE RemoveEmails(_)
RemoveEmails(s) ==
  IF s = <<>> THEN <<>>
  ELSE IF isspace(s[1]) THEN <<s[1]>> \o RemoveEmails(Tail(s))
  ELSE LET spaces == {i \in 1..Len(s) : isspace(s[i])}
           end == IF spaces = {} THEN Len(s) ELSE (CHOOSE i \in spaces : \A k \in spaces : i <= k) - 1
           word == SubSeq(s, 1, end)
       IN  (IF \E i \in 2..(end - 1) : word[i] = "@" THEN <<>> ELSE word) \o RemoveEmails(SubSeq(s, end + 1, Len(s)))

\* element.get_text(' ', strip=True) of an element whose children hold texts
text_of_children(nodes) ==
  join(<<" ">>, SelectSeq(<<>> \o [i \in 1..Len(nodes) |-> strip(nodes[i].text)], LAMBDA t : t # <<>>))

\* _parse_member_li: li is [label, h3, h4_tags, text], h3 being None when the
\* label holds no h3
RECURSIVE H4Affiliation(_)
H4Affiliation(h4_tags) ==
  IF h4_tags = <<>> THEN None
  ELSE IF Contains(lower(strip(Head(h4_tags))), <<"c", "h", "a", "i", "r">>) \/ Contains(lower(strip(Head(h4_tags))), <<"m", "e", "m", "b", "e", "r">>)
    THEN H4Affiliation(Tail(h4_tags))
  ELSE IF base_normalize_affiliation(strip(Head(h4_tags))) = None THEN H4Affiliation(Tail(h4_tags))
  ELSE base_normalize_affiliation(strip(Head(h4_tags)))

H4RoleText(h4_tags) ==
  LET roles == SelectSeq(h4_tags, LAMBDA h4 : Contains(lower(strip(h4)), <<"c", "h", "a", "i", "r">>) \/ Contains(lower(strip(h4)), <<"m", "e", "m", "b", "e", "r">>))
  IN  IF roles = <<>> THEN <<>> ELSE strip(roles[Len(roles)])

parse_member_li(li, committee_type, heading_text) ==
  IF ~li.label THEN qcrypt_parse_plain_text(strip(li.text), committee_type, heading_text)
  ELSE IF li.h3 = None THEN None
  ELSE LET name == base_normalize_name(strip(li.h3[1]))
           role_text == H4RoleText(li.h4_tags)
       IN  Some(MemberDict(name, committee_type, qcrypt_detect_position(name, role_text, heading_text),
                           H4Affiliation(li.h4_tags), base_detect_role_title(role_text, heading_text)))

\* _parse_member_section, member_list being the li of ul.members
RECURSIVE parse_member_section(_, _, _)
parse_member_section(member_list, committee_type, heading_text) ==
  IF member_list = <<>> THEN <<>>
  ELSE parse_member_li(Head(member_list), committee_type, heading_text)
         \o parse_member_section(Tail(member_list), committee_type, heading_text)

\* _parse_plain_list, one li with anchors: name is the text of the first
\* anchor that is no mailto link
RECURSIVE RemoveAnchorTexts(_, _)
RemoveAnchorTexts(full_text, anchors) ==
  IF anchors = <<>> THEN full_text
  ELSE RemoveAnchorTexts(RemoveAll(full_text, strip(Head(anchors).text)), Tail(anchors))

AnchoredMember(li, name, anchors, committee_type, heading_text) ==
  LET full_text == RemoveAnchorTexts(text_of_children(li), anchors)
      o == ParenMatchStart(name)
      name_affiliation == IF o # 0 THEN base_normalize_affiliation(SubSeq(name, o + 1, FirstCloser(name, o) - 1)) ELSE None
      remaining_text == IF name_affiliation = None THEN strip(RemoveEmails(full_text)) ELSE full_text
      affiliation == IF name_affiliation = None /\ remaining_text # <<>> /\ ParenMatchStart(remaining_text) = 1
                       THEN base_normalize_affiliation(SubSeq(remaining_text, 2, FirstCloser(remaining_text, 1) - 1))
                       ELSE name_affiliation
      full_name == base_normalize_name(IF o # 0 THEN RemoveParens(name) ELSE name)
      dash_position == IF DashMatchStart(remaining_text) # 0
                         THEN ChairDesignation(DashRoleText(remaining_text, DashMatchStart(remaining_text)), "member")
                         ELSE "member"
  IN  MemberDict(full_name, committee_type,
                 IF dash_position = "member" THEN qcrypt_detect_position(full_name, heading_text, heading_text) ELSE dash_position,
                 affiliation, base_detect_role_title(remaining_text, heading_text))

plain_list_item(li, committee_type, heading_text) ==
  LET anchors == SelectSeq(li, LAMBDA child : child.tag = "a")
      links == SelectSeq(anchors, LAMBDA a : ~a.mailto)
  IN  IF anchors = <<>> THEN qcrypt_parse_plain_text(text_of_children(li), committee_type, heading_text)
      ELSE IF links = <<>> \/ strip(links[1].text) = <<>> THEN <<>>
      ELSE <<AnchoredMember(li, strip(links[1].text), anchors, committee_type, heading_text)>>

RECURSIVE parse_plain_list(_, _, _)
parse_plain_list(ul, committee_type, heading_text) ==
  IF ul = <<>> THEN <<>>
  ELSE plain_list_item(Head(ul), committee_type, heading_text) \o parse_plain_list(Tail(ul), committee_type, heading_text)

\* the committee type of a heading; None for a heading of no committee
qcrypt_committee_type(heading_text) ==
  IF \E kw \in {<<"p", "r", "o", "g", "r", "a", "m", " ", "c", "o", "m", "m", "i", "t", "t", "e", "e">>, <<"p", "r", "o", "g", "r", "a", "m", "m", "e", " ", "c", "o", "m", "m", "i", "t", "t", "e", "e">>, <<"p", "c", " ", "m", "e", "m", "b", "e", "r", "s">>} : Contains(heading_text, kw) THEN Some("program")
  ELSE IF Contains(heading_text, <<"s", "t", "e", "e", "r", "i", "n", "g", " ", "c", "o", "m", "m", "i", "t", "t", "e", "e">>) THEN Some("steering")
  ELSE IF \E kw \in {<<"o", "r", "g", "a", "n", "i", "z", "i", "n", "g", " ", "c", "o", "m", "m", "i", "t", "t", "e", "e">>, <<"l", "o", "c", "a", "l">>, <<"o", "c", " ", "s", "u", "p", "p", "o", "r", "t">>} : Contains(heading_text, kw) THEN Some("local_organizing")
  ELSE IF Contains(heading_text, <<"a", "d", "v", "i", "s", "o", "r", "y", " ", "c", "o", "m", "m", "i", "t", "t", "e", "e">>) THEN Some("steering")
  ELSE None

\* QCryptScraper.parse_committee_data on a page that is one h2 heading
\* followed by a section.members with its ul.members and by a plain ul
qcrypt_parse_committee_data(page) ==
  LET heading_text == lower(page.heading)
      committee_type == qcrypt_committee_type(heading_text)
  IN  IF committee_type = None THEN <<>>
      ELSE parse_member_section(page.member_list, committee_type[1], heading_text)
             \o parse_plain_list(page.ul, committee_type[1], heading_text)

\* BaseCommitteeScraper.scrape of the QCrypt scraper, the page fetched
qcrypt_scrape(page) == base_deduplicate_members(qcrypt_parse_committee_data(page))

(***************************************************************************)
(* scrapers/qip.py (committees): a member of a <br>-separated list         *)
(***************************************************************************)
QipMemberDict(full_name, committee_type, position, affiliation) ==
  [committee_type |-> committee_type, position |-> position, full_name |-> full_name,
   affiliation |-> affiliation, notes |-> None]

topic_keywords == {<<"q", "u", "a", "n", "t", "u", "m">>, <<"c", "r", "y", "p", "t", "o", "g", "r", "a", "p", "h", "y">>, <<"c", "o", "m", "p", "l", "e", "x", "i", "t", "y">>, <<"t", "h", "e", "o", "r", "y">>, <<"t", "o", "m", "o", "g", "r", "a", "p", "h", "y">>, <<"l", "e", "a", "r", "n", "i", "n", "g">>, <<"e", "r", "r", "o", "r", " ", "c", "o", "r", "r", "e", "c", "t", "i", "o", "n">>, <<"f", "o", "u", "n", "d", "a", "t", "i", "o", "n", "s">>}

\* text.split(':', 1)[1] and text.rsplit(',', 1)
AfterFirst(text, c) ==
  SubSeq(text, (CHOOSE i \in 1..Len(text) : text[i] = c /\ \A k \in 1..(i - 1) : text[k] # c) + 1, Len(text))

LastIndex(text, c) ==
  CHOOSE i \in 1..Len(text) : text[i] = c /\ \A k \in (i + 1)..Len(text) : text[k] # c

\* _parse_member_text, for texts that hold no '&nbsp;'
qip_parse_member_text(raw, committee_type, position) ==
  LET stripped == strip(raw)
      is_topic == (\E i \in 1..Len(stripped) : stripped[i] = ":") /\ \E kw \in topic_keywords : Contains(lower(stripped), kw)
      text == IF is_topic THEN strip(AfterFirst(stripped, ":")) ELSE stripped
      has_comma == \E i \in 1..Len(text) : text[i] = ","
      name == base_normalize_name(IF has_comma THEN strip(SubSeq(text, 1, LastIndex(text, ",") - 1)) ELSE text)
      affiliation == IF has_comma THEN base_normalize_affiliation(strip(SubSeq(text, LastIndex(text, ",") + 1, Len(text)))) ELSE None
  IN  IF Len(stripped) < 3 \/ name = <<>> THEN None
      ELSE Some(QipMemberDict(name, committee_type, IF is_topic THEN "area_chair" ELSE position, affiliation))

\* QIPScraper.parse_committee_data on a page whose div.ce-bodytext is the
\* paragraph <strong>Full Program Committee</strong> followed by one
\* paragraph of <br>-separated entries
RECURSIVE qip_parse_committee_data(_)
qip_parse_committee_data(entries) ==
  IF entries = <<>> THEN <<>>
  ELSE (IF Len(strip(Head(entries))) > 3 THEN qip_parse_member_text(strip(Head(entries)), "program", "member") ELSE <<>>)
         \o qip_parse_committee_data(Tail(entries))

(***************************************************************************)
(* scrape_to_csv.py: the two commands that scrape a page into a CSV file   *)
(***************************************************************************)
\* what a call gives: the value it returns, or the exception it raises
Returned(value) == [raised |-> "", value |-> value]

Raised(exception) == [raised |-> exception, value |-> <<>>]

\* TQCScraper.parse_committee_data and TQCTalkScraper.parse_talk_data
tqc_parse_committee_data(page) == Raised("NotImplementedError")

\* (mutant) the TQC talk scraper returns no talk where it has no rule
tqc_parse_talk_data_NoTalks(page) == Returned(<<>>)

tqc_parse_talk_data(page) == Raised("NotImplementedError")

\* BaseCommitteeScraper.scrape: fetched is "page" when the local file or the
\* URL could be read and "error" when reading it raised
committee_scrape(venue, fetched, page) ==
  IF fetched = "error" THEN Raised("Exception")
  ELSE IF venue = "TQC" THEN tqc_parse_committee_data(page)
  ELSE IF venue = "QIP" THEN Returned(base_deduplicate_members(qip_parse_committee_data(page)))
  ELSE Returned(qcrypt_scrape(page))

\* BaseTalkScraper.scrape: without a local file the page is fetched from
\* get_url(), which the TQC scraper does not implement
talk_scrape(venue, has_local_file, fetched, page) ==
  IF ~has_local_file /\ venue = "TQC" THEN Raised("NotImplementedError")
  ELSE IF fetched = "error" THEN Raised("Exception")
  ELSE IF venue = "TQC" THEN tqc_parse_talk_data(page)
  ELSE Returned(qip_talk_scrape(page))

committee_fieldnames == <<"venue", "year", "committee_type", "position", "full_name", "affiliation", "notes">>

talk_fieldnames ==
  <<"venue", "year", "paper_type", "title", "speakers", "authors", "affiliations", "abstract",
    "arxiv_ids", "presentation_url", "video_url", "youtube_id", "session_name", "award", "notes">>

\* serialize_list
serialize_list(items) == join(<<";">>, SelectSeq(items, LAMBDA item : item # <<>>))

\* a value as the csv module writes it: None as the empty string
CsvCell(field, value) ==
  IF field \in {"affiliation", "role_title", "notes", "abstract"}
    THEN IF value = None THEN <<>> ELSE value[1]
    ELSE value

\* DictWriter._dict_to_list: the values of the columns, '' for a missing key
CsvRow(fieldnames, rowdict) ==
  [field \in Range(fieldnames) |-> IF field \in DOMAIN rowdict THEN CsvCell(field, rowdict[field]) ELSE <<>>]

\* "member['venue'] = venue.upper(); member['year'] = year"
WithVenueYear(record, venue, year) ==
  [field \in DOMAIN record \cup {"venue", "year"} |->
     IF field = "venue" THEN venue ELSE IF field = "year" THEN year ELSE record[field]]

\* DictWriter.writerows with extrasaction='raise': the rows written before
\* the first dict with a key that is no column
RECURSIVE RowsWritten(_, _)
RowsWritten(fieldnames, rowdicts) ==
  IF rowdicts = <<>> \/ ~(DOMAIN Head(rowdicts) \subseteq Range(fieldnames)) THEN <<>>
  ELSE <<CsvRow(fieldnames, Head(rowdicts))>> \o RowsWritten(fieldnames, Tail(rowdicts))

\* (mutant) the output file is written whether it exists or not
KeepsExisting_Never(existing, force) == FALSE

\* "if output_file.exists() and not force"
KeepsExisting(existing, force) == existing # None /\ ~force

\* save_to_csv of scrape_committees: the value returned or the exception
\* raised, and the output file afterwards
committee_save_to_csv(venue, year, members, existing, force) ==
  IF KeepsExisting(existing, force) THEN [raised |-> "", value |-> None, file |-> existing]
  ELSE LET rowdicts == <<>> \o [i \in 1..Len(members) |-> WithVenueYear(members[i], venue, year)]
           rows == RowsWritten(committee_fieldnames, rowdicts)
       IN  [raised |-> IF Len(rows) < Len(rowdicts) THEN "ValueError" ELSE "",
            value |-> IF Len(rows) < Len(rowdicts) THEN None ELSE Some(<<venue, year, "committees">>),
            file |-> Some([header |-> committee_fieldnames, rows |-> rows])]

\* save_to_csv of scrape_talks: lists serialized, keys that are no column
\* ignored
TalkRowDict(talk, venue, year) ==
  [field \in DOMAIN talk \cup {"venue", "year"} |->
     IF field = "venue" THEN venue ELSE IF field = "year" THEN year
     ELSE IF field \in {"speakers", "authors", "affiliations", "arxiv_ids"} THEN serialize_list(talk[field])
     ELSE talk[field]]

talk_save_to_csv(venue, year, talks, existing, force) ==
  IF KeepsExisting(existing, force) THEN [raised |-> "", value |-> None, file |-> existing]
  ELSE [raised |-> "", value |-> Some(<<venue, year, "talks">>),
        file |-> Some([header |-> talk_fieldnames,
                       rows |-> <<>> \o [i \in 1..Len(talks) |-> CsvRow(talk_fieldnames, TalkRowDict(talks[i], venue, year))]])]

\* the end of a command: its exit status, what it reported, what scrape()
\* raised and save_to_csv returned, and the output file
Exit(status, signal, scraped, saved, file) ==
  [status |-> status, signal |-> signal, scraped |-> scraped, saved |-> saved, file |-> file]

\* async_main of scrape_committees/scrape_to_csv.py
committees_async_main(cmd, existing) ==
  IF cmd.local # "no" /\ ~cmd.local_file_exists THEN Exit(1, "local file not found", "not called", "not called", existing)
  ELSE LET scraped == committee_scrape(cmd.venue, cmd.fetched, cmd.page)
           saved == committee_save_to_csv(cmd.venue, cmd.year, scraped.value, existing, cmd.force)
       IN  IF scraped.raised = "NotImplementedError" THEN Exit(1, "not implemented", scraped.raised, "not called", existing)
           ELSE IF scraped.raised # "" THEN Exit(1, "error scraping", scraped.raised, "not called", existing)
           ELSE IF scraped.value = <<>> THEN Exit(1, "no members found", "returned", "not called", existing)
           ELSE IF saved.raised # "" THEN Exit(1, "error saving file", "returned", saved.raised, saved.file)
           ELSE IF saved.value = None THEN Exit(1, "output file exists", "returned", "None", saved.file)
           ELSE Exit(0, "saved", "returned", "path", saved.file)

\* async_main of scrape_talks/scrape_to_csv.py
talks_async_main(cmd, existing) ==
  IF cmd.local = "dir" /\ ~cmd.archive_url /\ cmd.venue = "TQC" THEN Exit(1, "no default url", "not called", "not called", existing)
  ELSE IF cmd.local # "no" /\ ~cmd.local_file_exists THEN Exit(1, "local file not found", "not called", "not called", existing)
  ELSE LET scraped == talk_scrape(cmd.venue, cmd.local # "no", cmd.fetched, cmd.page)
           saved == talk_save_to_csv(cmd.venue, cmd.year, scraped.value, existing, cmd.force)
       IN  IF scraped.raised = "NotImplementedError" THEN Exit(1, "not implemented", scraped.raised, "not called", existing)
           ELSE IF scraped.raised # "" THEN Exit(1, "error scraping", scraped.raised, "not called", existing)
           ELSE IF saved.value = None THEN Exit(0, "output file exists", "returned", "None", saved.file)
           ELSE Exit(0, "saved", "returned", "path", saved.file)

(***************************************************************************)
(* The authors table: get_or_create_author of import_from_csv.py and of    *)
(* scrape_committees.py                                                    *)
(***************************************************************************)
\* a row of the table authors; its id is its place in the table
AuthorRow(full_name, normalized_name, affiliation) ==
  [full_name |-> full_name, normalized_name |-> normalized_name, affiliation |-> affiliation]

\* normalize_name of import_from_csv.py
import_normalize_name(name) == strip(join(<<" ">>, split(StripTitles(name, 1))))

\* "SELECT id FROM authors WHERE normalized_name = $1": 0 when there is none
\* (the table author_name_variants is empty)
AuthorId(authors, normalized) ==
  LET found == {i \in 1..Len(authors) : authors[i].normalized_name = normalized}
  IN  IF found = {} THEN 0 ELSE CHOOSE i \in found : \A k \in found : i <= k

\* get_or_create_author of import_from_csv.py: the table afterwards
import_get_or_create_author(authors, full_name, affiliation) ==
  LET normalized_full == lower(import_normalize_name(full_name))
      author_id == AuthorId(authors, normalized_full)
  IN  IF author_id # 0
        THEN IF Truthy(affiliation)
               THEN [authors EXCEPT ![author_id].affiliation = affiliation]
               ELSE authors
        ELSE Append(authors, AuthorRow(full_name, normalized_full, affiliation))

\* get_or_create_author of scrape_committees.py: the table afterwards
scraper_get_or_create_author(authors, name, affiliation) ==
  IF AuthorId(authors, normalize_name(name)) # 0 THEN authors
  ELSE Append(authors, AuthorRow(name, normalize_name(name), affiliation))

(***************************************************************************)
(* convert_tqc_to_csv.py: parse_bibtex_file, the scan for entries          *)
(***************************************************************************)
\* Positions are Python's: the first character is at 0, -1 is "not found".
\* content.find(sub, start)
str_find(content, sub, start) ==
  LET found == {i \in start..(Len(content) - Len(sub)) : SubSeq(content, i + 1, i + Len(sub)) = sub}
  IN  IF found = {} THEN -1 ELSE CHOOSE i \in found : \A k \in found : i <= k

\* content[from:to], to being -1 for "up to the last character"
Slice(content, from, to) ==
  SubSeq(content, from + 1, IF to < 0 THEN Len(content) + to ELSE IF to > Len(content) THEN Len(content) ELSE to)

entry_types ==
  <<<<"@", "T", "a", "l", "k", "{">>,
    <<"@", "C", "o", "n", "f", "e", "r", "e", "n", "c", "e", "{">>,
    <<"@", "W", "o", "r", "k", "s", "h", "o", "p", "{">>>>

\* "while i < len(content) and brace_count > 0": the value of i afterwards
RECURSIVE ClosingBrace(_, _, _)
ClosingBrace(content, i, brace_count) ==
  IF i < Len(content) /\ brace_count > 0
    THEN ClosingBrace(content, i + 1,
                      IF content[i + 1] = "{" THEN brace_count + 1
                      ELSE IF content[i + 1] = "}" THEN brace_count - 1
                      ELSE brace_count)
    ELSE i

\* the entry that starts at entry_start: its id, its type, its content (from
\* which the fields are extracted) and where it ends
BibtexEntry(content, entry_type, entry_start) ==
  LET id_start == entry_start + Len(entry_type)
      id_end == str_find(content, <<",">>, id_start)
      entry_end == ClosingBrace(content, id_end + 1, 1)
  IN  [entry_id |-> strip(Slice(content, id_start, id_end)),
       entry_type |-> SubSeq(entry_type, 2, Len(entry_type) - 1),
       entry_content |-> Slice(content, id_end + 1, entry_end - 1),
       entry_end |-> entry_end]

(***************************************************************************)
(* scrape_committees.py: main, the batch run over the conferences          *)
(***************************************************************************)
\* the committee types in the order main scrapes them
batch_committees == <<"PC", "OC", "SC">>

\* (mutant) an exception of one committee type leaves the loops
AfterException_Propagates(position) == [conf |-> position.conf, at |-> "raise"]

\* "except Exception as e: logger.warning(...)": the run goes on with the
\* position after the try block
AfterException(position) == position

\* the position after the committee type k of conference conf, of count
\* conferences
AfterCommittee(conf, k, count) ==
  IF k < Len(batch_committees) THEN [conf |-> conf, at |-> batch_committees[k + 1]]
  ELSE IF conf < count THEN [conf |-> conf + 1, at |-> "check"]
  ELSE [conf |-> conf, at |-> "complete"]

\* the try block of committee type k: outcome is what scrape_committee_page
\* and insert_committee_members do for it. The run afterwards.
ScrapeCommitteeType(run, conf, k, outcome, dry_run, count) ==
  LET failed == outcome = "scrape fails" \/ (outcome = "store fails" /\ ~dry_run)
      next == IF failed THEN AfterException(AfterCommittee(conf, k, count)) ELSE AfterCommittee(conf, k, count)
  IN  IF outcome = "no url"
        THEN [run EXCEPT !.conf = next.conf, !.at = next.at]
        ELSE [run EXCEPT !.conf = next.conf, !.at = next.at,
                         !.tried = @ \cup {<<conf, batch_committees[k]>>},
                         !.stored = IF failed \/ dry_run THEN @ ELSE @ \cup {<<conf, batch_committees[k]>>},
                         !.warnings = IF failed THEN @ + 1 ELSE @]

(***************************************************************************)
(* The inputs of the checks                                                *)
(***************************************************************************)
\* all sequences over S of length at most n
RECURSIVE SeqsUpTo(_, _)
SeqsUpTo(S, n) ==
  IF n = 0 THEN {<<>>}
  ELSE LET shorter == SeqsUpTo(S, n - 1)
       IN  shorter \cup {Append(q, x) : q \in shorter, x \in S}

\* n copies of the character c
Repeat(c, n) == [i \in 1..n |-> c]

CommitteeTypes == {"PC", "OC", "SC"}

MaxTextLen == 5
EntryAlphabet == {"A", "b", " ", ",", "("}

\* entry texts the spec and the code's comments name, and boundary cases
NamedEntryTexts ==
  {<<"B", "o", "b", " ", "L", "e", "e", ",", " ", "P", "r", "o", "g", "r", "a", "m", " ", "C", "o", "m", "m", "i", "t", "t", "e", "e">>, <<"B", "O", "B", " ", "L", "E", "E">>, <<"B", "o", "b", " ", "L", "e", "e", ",", " ", "M", "I", "T">>,
   <<"J", "o", "h", "n", " ", "S", "m", "i", "t", "h", " ", "(", "M", "I", "T", ")">>, <<"A", "l", "i", "c", "e", " ", "C", "h", "e", "n", " ", "endash", " ", "P", "r", "o", "g", "r", "a", "m", " ", "C", "h", "a", "i", "r">>,
   <<"A", "l", "i", "c", "e", " ", "C", "h", "e", "n", " ", "-", " ", "E", "T", "H">>, <<"L", "i", " ", "Q", "i", "a", "n", " ", "T", "o", "r", "o", "n", "t", "o", " ", "S", "i", "t", "e", " ", "c", "h", "a", "i", "r">>,
   <<"A", "n", "n", " ", "L", "e", "e", " ", "N", "e", "w", " ", "Y", "o", "r", "k", " ", "U", "n", "i", "v", "e", "r", "s", "i", "t", "y", " ", "S", "i", "t", "e", " ", "P", "C", " ", "m", "e", "m", "b", "e", "r">>,
   <<"B", "o", "b", " ", "L", "e", "e", ",", " ", "P", "r", "o", "g", "r", "a", "m", "m", "e", " ", "C", "o", "m", "m", "i", "t", "t", "e", "e", " ", "o", "f", " ", "t", "h", "e", " ", "C", "o", "n", "f", "e", "r", "e", "n", "c", "e">>,
   <<" ", "J", "o", " ", "(", "E", "T", "H", ")", " ", "C", "o", "-", "C", "h", "a", "i", "r">>, <<"P", "r", "o", "g", "r", "a", "m", " ", "C", "o", "m", "m", "i", "t", "t", "e", "e">>, <<"D", "r", ".", " ", "B", "o", "b", " ", "L", "e", "e">>,
   <<"A">> \o Repeat("b", MaxNameLen - 1) \o <<",", " ", "M", "I", "T">>,
   <<"A">> \o Repeat("b", MaxNameLen) \o <<",", " ", "M", "I", "T">>,
   <<"A", " ", " ">> \o Repeat("b", MaxNameLen - 2) \o <<",", " ", "M", "I", "T">>}

MaxMembers == 3
MemberNames == {<<"B", "o", "b", " ", "L", "e", "e">>, <<"b", "o", "b", " ", "L", "e", "e">>, <<"A", "m", "y", " ", "W", "u">>}
MemberAffiliations == {Some(<<"M", "I", "T">>), Some(<<"E", "T", "H">>)}
MemberPositions == {"member", "chair"}

MemberPool ==
  {CommitteeMember(n, "PC", p, None, a) :
     n \in MemberNames, p \in MemberPositions, a \in MemberAffiliations}

AsDict(m) ==
  MemberDict(m.name, m.committee, m.position, m.affiliation, m.role_title)

DictPool == {AsDict(m) : m \in MemberPool}

MaxTitleParts == 3
TitlePieces ==
  {<<"T", "U", "T", "O", "R", "I", "A", "L", ":", " ">>, <<"P", "l", "e", "n", "a", "r", "y", " ">>, <<"x">>, <<" ">>, <<"[", "r", "e", "m", "o", "t", "e", "]">>, <<"eacute">>,
   <<"_">>, <<"Y", "!">>}

RECURSIVE Concat(_)
Concat(parts) == IF parts = <<>> THEN <<>> ELSE Head(parts) \o Concat(Tail(parts))

NamedTitles ==
  {<<"Q", "u", "a", "n", "t", "u", "m", " ", "E", "r", "r", "o", "r", " ", "C", "o", "r", "r", "e", "c", "t", "i", "o", "n", " ", "v", "i", "a", " ", "X">>,
   <<"q", "u", "a", "n", "t", "u", "m", " ", "e", "r", "r", "o", "r", " ", "c", "o", "r", "r", "e", "c", "t", "i", "o", "n", " ", "v", "i", "a", " ", "x", " ", "[", "r", "e", "m", "o", "t", "e", "]">>,
   <<"T", "U", "T", "O", "R", "I", "A", "L", ":", " ", "P", "L", "E", "N", "A", "R", "Y", ":", " ", "x">>, <<"S", "h", "o", "r", "t", " ", "P", "l", "e", "n", "a", "r", "y", " ", "1", "2", ":", " ", "O", "n", " ", "Y">>,
   <<"I", "n", "v", "i", "t", "e", "d", " ", "P", "l", "e", "n", "a", "r", "y", ":", " ", "C", "a", "f">> \o <<"eacute">>}

Titles == {Concat(q) : q \in SeqsUpTo(TitlePieces, MaxTitleParts)} \cup NamedTitles

TitleModules == {"parse_schedule", "generate_csv_with_schedule", "convert_tqc_to_csv"}

Talk(title, arxiv_ids, speakers) ==
  [title |-> title, arxiv_ids |-> arxiv_ids, speakers |-> speakers,
   scheduled_date |-> <<>>, scheduled_time |-> <<>>, duration_minutes |-> <<>>]

ScheduleEvent(title, arxiv_ids, date, time, duration, speaker) ==
  [title_from_summary |-> title, arxiv_ids |-> arxiv_ids, date |-> date,
   time |-> time, duration_minutes |-> duration, speaker |-> speaker]

MaxTalks == 2
MaxEvents == 2

TalkPool ==
  {Talk(<<"Q", "u", "a", "n", "t", "u", "m", " ", "E", "r", "r", "o", "r", " ", "C", "o", "r", "r", "e", "c", "t", "i", "o", "n", " ", "v", "i", "a", " ", "X">>, <<"2", "3", "0", "1", ".", "1">>, <<"A", "n", "n", ";", " ", "B", "o", "b">>),
   Talk(<<"Q", "u", "a", "n", "t", "u", "m", " ", "W", "a", "l", "k", "s">>, <<>>, <<"C", "y">>),
   Talk(<<"E", "r", "r", "o", "r", " ", "C", "o", "r", "r", "e", "c", "t", "i", "o", "n">>, <<"2", "3", "0", "1", ".", "2">>, <<"D", "i">>)}

SchedulePool ==
  {ScheduleEvent(<<"q", "u", "a", "n", "t", "u", "m", " ", "e", "r", "r", "o", "r", " ", "c", "o", "r", "r", "e", "c", "t", "i", "o", "n", " ", "v", "i", "a", " ", "x", " ", "[", "r", "e", "m", "o", "t", "e", "]">>, <<>>,
                 <<"2", "0", "2", "3", "-", "0", "7", "-", "2", "4">>, <<"0", "9", ":", "0", "0">>, <<"3", "0">>, <<"A", "n", "n">>),
   ScheduleEvent(<<"Q", "u", "a", "n", "t", "u", "m", " ", "W", "a", "l", "k", "s">>, <<"2", "3", "0", "1", ".", "1">>,
                 <<"2", "0", "2", "3", "-", "0", "7", "-", "2", "5">>, <<"1", "0", ":", "0", "0">>, <<"2", "0">>, <<>>),
   ScheduleEvent(<<"E", "r", "r", "o", "r", " ", "C", "o", "r", "r", "e", "c", "t", "i", "o", "n", " ", "o", "f", " ", "W", "a", "l", "k", "s">>, <<"2", "3", "0", "1", ".", "2", ",", " ", "2", "3", "0", "1", ".", "3">>,
                 <<"2", "0", "2", "3", "-", "0", "7", "-", "2", "6">>, <<"1", "1", ":", "0", "0">>, <<>>, <<"D", "i">>),
   ScheduleEvent(<<"Q", "u", "a", "n", "t", "u", "m", " ", "w", "a", "l", "k", "s", "!">>, <<>>,
                 <<"2", "0", "2", "3", "-", "0", "7", "-", "2", "7">>, <<"1", "2", ":", "0", "0">>, <<"2", "5">>, <<"E", "v", "e">>)}

\* the pages: up to MaxBlocks blocks below the root, each one of PageBlocks
MaxBlocks == 3

Leaf(tag, classes, text) == Element(tag, classes, text, <<>>)

\* an entry text of n characters that parse_member_entry accepts
LongEntry(name, n) == name \o <<",", " ">> \o Repeat("x", n - Len(name) - 2)

\* li > div.label > h3, h4, ...
Card(name, h4_texts) ==
  Element("li", {}, <<>>,
    <<Element("div", {"label"}, <<>>,
        <<Leaf("h3", {}, name)>>
          \o [i \in 1..Len(h4_texts) |-> Leaf("h4", {}, h4_texts[i])])>>)

\* section.members > ul.members > items
MemberSection(items) ==
  Element("section", {"members"}, <<>>,
    <<Element("ul", {"members"}, <<>>, items)>>)

PageBlocks ==
  {Leaf("h2", {}, <<"P", "r", "o", "g", "r", "a", "m", " ", "C", "o", "m", "m", "i", "t", "t", "e", "e">>),
   Leaf("h3", {}, <<" ", "P", "C", " ", "M", "e", "m", "b", "e", "r", "s", " ">>),
   Leaf("h2", {}, <<"O", "r", "g", "a", "n", "i", "z", "e", "r", "s">>),
   Element("ul", {}, <<>>,
     <<Leaf("li", {}, <<"A", "n", "n", " ", "L", "e", "e", ",", " ", "M", "I", "T">>),
       Leaf("li", {}, <<"A", "b">>),
       Leaf("li", {}, LongEntry(<<"Z", "e", "d", " ", "R", "o", "e">>, MaxEntryLen + 1)),
       Element("li", {}, <<" ", "E", "v", "e", " ", "F", "a", "y", ",">>, <<Leaf("span", {}, <<"M", "I", "T", " ">>)>>)>>),
   MemberSection(<<Card(<<"J", "a", "n", "e", " ", "D", "o", "e">>, <<<<"M", "I", "T">>, <<"P", "r", "o", "g", "r", "a", "m", " ", "C", "h", "a", "i", "r">>>>)>>),
   Element("p", {}, <<>>,
     <<MemberSection(
         <<Card(<<"J", "A", "N", "E", " ", "D", "O", "E">>, <<<<"A", "r", "e", "a", " ", "C", "h", "a", "i", "r">>, <<"E", "T", "H">>, <<"C", "W", "I">>>>),
           Leaf("li", {}, <<"B", "o", "b", " ", "R", "o", "e", " ", "(", "E", "T", "H", ")">>),
           Leaf("li", {}, LongEntry(<<"Y", "a", "n", " ", "R", "o", "e">>, MaxEntryLen + 1)),
           Leaf("li", {}, <<"A", "l">>),
           Card(<<" ", "D", "r", " ", "K", "i", "m", " ", "O", "h", " ">>, <<<<"L", "o", "c", "a", "l", " ", "C", "h", "a", "i", "r">>>>)>>)>>),
   Element("div", {"members"}, <<>>,
     <<Leaf("div", {"member"}, <<"C", "y", " ", "P", "o", "e", ",", " ", "E", "T", "H">>),
       Leaf("div", {"member"}, LongEntry(<<"X", "i", " ", "R", "o", "e">>, MaxEntryLen + 1)),
       Leaf("div", {"member"}, <<"C", "y">>)>>),
   Element("div", {"content"}, <<>>,
     <<Leaf("span", {"person"}, LongEntry(<<"W", "u", " ", "R", "o", "e">>, MaxEntryLen + 1)),
       Leaf("p", {}, <<"D", "e", "e", " ", "F", "o", "x", ",", " ", "M", "I", "T">>),
       Leaf("p", {}, LongEntry(<<"V", "a", "l", " ", "R", "o", "e">>, MaxEntryLen + 1)),
       Leaf("p", {}, <<"o", "k">>)>>),
   Element("ul", {"menu"}, <<>>,
     <<Leaf("li", {}, <<"H", "o", "m", "e">>), Leaf("li", {}, <<"A", "m", "y", " ", "W", "u", ",", " ", "M", "I", "T">>)>>)}

PageCommitteeTypes == {"PC", "OC"}

\* pages with entries of exactly MaxEntryLen characters
BoundaryPages ==
  {<<Element("div", {"members"}, <<>>,
       <<Leaf("div", {"member"}, LongEntry(<<"M", "a", "x", " ", "R", "o", "e">>, MaxEntryLen)),
         Leaf("div", {"member"}, LongEntry(<<"X", "i", " ", "R", "o", "e">>, MaxEntryLen + 1))>>)>>,
   <<Leaf("h2", {}, <<"P", "r", "o", "g", "r", "a", "m", " ", "C", "o", "m", "m", "i", "t", "t", "e", "e">>),
     Element("ul", {}, <<>>,
       <<Leaf("li", {}, LongEntry(<<"Z", "e", "d", " ", "R", "o", "e">>, MaxEntryLen + 1)),
         Leaf("li", {}, LongEntry(<<"M", "a", "x", " ", "R", "o", "e">>, MaxEntryLen))>>)>>}

Pages == {Element("[document]", {}, <<>>, blocks) :
            blocks \in SeqsUpTo(PageBlocks, MaxBlocks) \cup BoundaryPages}

\* the entry texts of the Field Extractor: up to MaxFieldParts pieces each
MaxFieldParts == 3

FieldPieces ==
  {<<"J", "o", " ", "L", "i">>, <<" ">>, <<"(">>, <<")">>, <<"(", "M", "I", "T", ")">>, <<"(", "C", "o", "-", "C", "h", "a", "i", "r", ")">>, <<"c", "h", "a", "i", "r">>,
   <<"M", "e", "m", "b", "e", "r">>, <<" ", "-", " ">>, <<" ", "endash", " ">>, <<" ", "emdash", " ">>, <<"-">>, <<",">>, <<"O", "r", "g", "a", "n", "i", "z", "e", "r">>,
   <<" ", "S", "i", "t", "e", " ">>}

NamedFieldTexts ==
  {<<"J", "o", "h", "n", " ", "S", "m", "i", "t", "h", " ", "(", "M", "I", "T", ")">>, <<"A", "l", "i", "c", "e", " ", "C", "h", "e", "n", " ", "endash", " ", "P", "r", "o", "g", "r", "a", "m", " ", "C", "h", "a", "i", "r">>,
   <<"A", "l", "i", "c", "e", " ", "C", "h", "e", "n", " ", "emdash", " ", "P", "r", "o", "g", "r", "a", "m", " ", "C", "h", "a", "i", "r">>, <<"A", "l", "i", "c", "e", " ", "C", "h", "e", "n", " ", "-", " ", "E", "T", "H">>,
   <<"A", "n", "n", "-", "M", "a", "r", "i", "e", " ", "L", "e", "e">>, <<"J", "o", " ", "L", "i", " ", "(", "P", "C", " ", "M", "e", "m", "b", "e", "r", ")", " ", "L", "o", "c", "a", "l", " ", "C", "h", "a", "i", "r">>,
   <<"J", "o", " ", "L", "i", " ", "(", "M", "I", "T", ")", " ", "C", "h", "a", "i", "r">>, <<"B", "o", " ", "C", "h", "a", "i", "r", "m", "a", "n", " ", "(", "M", "I", "T", ")">>}

\* role texts: one for each phrase the Role Classifier knows, and some that
\* combine two of them or none
RoleTexts ==
  {<<"G", "e", "n", "e", "r", "a", "l", " ", "C", "h", "a", "i", "r">>, <<"C", "o", "n", "f", "e", "r", "e", "n", "c", "e", " ", "C", "h", "a", "i", "r">>, <<"P", "r", "o", "g", "r", "a", "m", " ", "C", "h", "a", "i", "r">>, <<"P", "r", "o", "g", "r", "a", "m", "m", "e", " ", "C", "h", "a", "i", "r">>,
   <<"P", "C", " ", "C", "h", "a", "i", "r">>, <<"P", "C", " ", "P", "r", "i", "m", "a", "r", "y", " ", "C", "h", "a", "i", "r">>, <<"S", "t", "e", "e", "r", "i", "n", "g", " ", "C", "h", "a", "i", "r">>, <<"S", "C", " ", "C", "h", "a", "i", "r">>, <<"L", "o", "c", "a", "l", " ", "C", "h", "a", "i", "r">>,
   <<"P", "u", "b", "l", "i", "c", "i", "t", "y", " ", "C", "h", "a", "i", "r">>, <<"W", "e", "b", " ", "C", "h", "a", "i", "r">>, <<"W", "e", "b", "m", "a", "s", "t", "e", "r">>, <<"T", "e", "c", "h", "n", "i", "c", "a", "l", " ", "O", "p", "e", "r", "a", "t", "i", "o", "n", "s", " ", "C", "h", "a", "i", "r">>,
   <<"L", "o", "c", "a", "l", " ", "A", "r", "r", "a", "n", "g", "e", "m", "e", "n", "t", "s">>, <<"R", "e", "g", "i", "s", "t", "r", "a", "t", "i", "o", "n", " ", "C", "h", "a", "i", "r">>, <<"P", "r", "o", "c", "e", "e", "d", "i", "n", "g", "s", " ", "C", "h", "a", "i", "r">>,
   <<"P", "o", "s", "t", "e", "r", " ", "C", "h", "a", "i", "r">>, <<"T", "u", "t", "o", "r", "i", "a", "l", " ", "C", "h", "a", "i", "r">>, <<"W", "o", "r", "k", "s", "h", "o", "p", " ", "C", "h", "a", "i", "r">>, <<"S", "p", "o", "n", "s", "o", "r", "s", "h", "i", "p", " ", "C", "h", "a", "i", "r">>,
   <<"F", "i", "n", "a", "n", "c", "e", " ", "C", "h", "a", "i", "r">>, <<"S", "o", "c", "i", "a", "l", " ", "E", "v", "e", "n", "t", "s", " ", "C", "h", "a", "i", "r">>, <<"C", "o", "-", "C", "h", "a", "i", "r">>, <<"C", "o", "c", "h", "a", "i", "r">>, <<"C", "o", " ", "C", "h", "a", "i", "r">>,
   <<"P", "C", " ", "C", "o", "-", "C", "h", "a", "i", "r">>, <<"A", "r", "e", "a", " ", "C", "h", "a", "i", "r">>, <<"S", "e", "n", "i", "o", "r", " ", "P", "C">>, <<"C", "h", "a", "i", "r">>, <<"M", "e", "m", "b", "e", "r">>, <<"M", "I", "T">>, <<>>,
   <<"G", "e", "n", "e", "r", "a", "l", " ", "C", "o", "-", "C", "h", "a", "i", "r">>, <<"P", "u", "b", "l", "i", "c", "i", "t", "y", " ", "C", "o", "-", "C", "h", "a", "i", "r">>, <<"A", "r", "e", "a", " ", "C", "h", "a", "i", "r", " ", "a", "n", "d", " ", "L", "o", "c", "a", "l", " ", "C", "h", "a", "i", "r">>,
   <<"P", "r", "o", "g", "r", "a", "m", " ", "C", "h", "a", "i", "r", ",", " ", "G", "e", "n", "e", "r", "a", "l", " ", "C", "h", "a", "i", "r">>}

\* entries "Jo Li, R" for each role text R
RoleFieldTexts == {<<"J", "o", " ", "L", "i", ",", " ">> \o r : r \in RoleTexts}

FieldTexts ==
  {Concat(parts) : parts \in SeqsUpTo(FieldPieces, MaxFieldParts)}
    \cup NamedFieldTexts \cup RoleFieldTexts

QCryptCommitteeTypes == {"program", "local_organizing"}

QCryptHeadings == {<<"p", "r", "o", "g", "r", "a", "m", " ", "c", "o", "m", "m", "i", "t", "t", "e", "e">>, <<"o", "r", "g", "a", "n", "i", "z", "i", "n", "g", " ", "c", "o", "m", "m", "i", "t", "t", "e", "e", " ", "c", "o", "-", "c", "h", "a", "i", "r", "s">>}

QCryptTexts ==
  FieldTexts \cup {<<"J", "o", " ", "L", "i", " ", "[", "E", "T", "H", "]", " ", "[", "l", "e", "a", "d", "]">>, <<"J", "o", " ", "L", "i", " ", "(", "w", "e", "b", ")", " ", "(", "c", "o", "-", "c", "h", "a", "i", "r", ")">>, <<"J", "o", " ", "L", "i", " ", "-", " ", "C", "o", " ", "C", "h", "a", "i", "r">>}

\* pages of headings and member lists: up to MaxSectionBlocks blocks each
MaxSectionBlocks == 4

SectionBlocks ==
  {Leaf("h2", {}, <<"P", "r", "o", "g", "r", "a", "m", " ", "C", "o", "m", "m", "i", "t", "t", "e", "e">>),
   Leaf("h3", {}, <<"P", "C", " ", "M", "e", "m", "b", "e", "r", "s">>),
   Leaf("h3", {}, <<"A", "r", "e", "a", " ", "C", "h", "a", "i", "r", "s">>),
   Leaf("h2", {}, <<"O", "r", "g", "a", "n", "i", "z", "e", "r", "s">>),
   Element("div", {}, <<>>, <<Leaf("h2", {}, <<"S", "p", "o", "n", "s", "o", "r", "s">>)>>),
   Element("ul", {}, <<>>, <<Leaf("li", {}, <<"A", "n", "n", " ", "L", "e", "e", ",", " ", "M", "I", "T">>)>>),
   Element("ul", {}, <<>>, <<Leaf("li", {}, <<"B", "o", "b", " ", "R", "o", "e", " ", "(", "E", "T", "H", ")">>)>>)}

SectionPages == {Element("[document]", {}, <<>>, blocks) :
                   blocks \in SeqsUpTo(SectionBlocks, MaxSectionBlocks)}

\* invocations of one process: up to MaxRuns documents, one after the other
MaxRuns == 2

\* documents of one or two different blocks: a heading of the programme
\* committee, a list with one entry, a div.member
RunPages ==
  {Element("[document]", {}, <<>>, blocks) :
     blocks \in {nodes \in SeqsUpTo({Leaf("h2", {}, <<"P", "r", "o", "g", "r", "a", "m", " ", "C", "o", "m", "m", "i", "t", "t", "e", "e">>),
                          Element("ul", {}, <<>>, <<Leaf("li", {}, <<"A", "n", "n", " ", "L", "e", "e", ",", " ", "M", "I", "T">>)>>),
                          Element("div", {"member"}, <<"B", "o", "b", " ", "R", "o", "e", " ", "(", "E", "T", "H", ")">>, <<>>)}, 2) :
     nodes # <<>> /\ (Len(nodes) = 2 => nodes[1] # nodes[2])}}

RunCalls == [soup : RunPages, committee_type : PageCommitteeTypes]

\* programme pages: the paragraphs of one or two div.ce-bodytext sections
MaxParagraphs == 3

TalkParagraphs ==
  {<<Piece("strong", <<"A", "n", "n", " ", "L", "e", "e">>), Piece("br", <<>>), Piece("text", <<"M", "I", "T">>)>>,
   <<Piece("strong", <<"B", "o", "b", " ", "R", "o", "e">>), Piece("br", <<>>), Piece("text", <<"E", "T", "H">>)>>,
   <<Piece("text", <<"C", "h", "a", "i", "r", ":">>), Piece("br", <<>>), Piece("strong", <<"C", "y", " ", "Y", "u">>)>>,
   <<Piece("strong", <<"Q", "u", "a", "n", "t", "u", "m", " ", "w", "a", "l", "k", "s">>)>>,
   <<Piece("strong", <<"C", "o", "d", "e", "s">>)>>,
   <<Piece("strong", <<"Q", "E", "C">>)>>,
   <<Piece("strong", <<"S", "u", "n", "d", "a", "y", " ", "1", " ", "F", "e", "b">>)>>,
   <<Piece("text", <<"A", "n", " ", "i", "n", "t", "r", "o", "d", "u", "c", "t", "i", "o", "n", " ", "t", "o", " ", "w", "a", "l", "k", "s", ".">>)>>,
   <<Piece("text", <<"S", "t", "a", "b", "i", "l", "i", "z", "e", "r", " ", "c", "o", "d", "e", "s", " ", "a", "n", "d", " ", "m", "o", "r", "e", ".">>)>>,
   <<Piece("text", <<"R", "o", "o", "m", " ", "1">>)>>}

TalkPages ==
  {<<section>> : section \in SeqsUpTo(TalkParagraphs, MaxParagraphs)}
    \cup {<<first, second>> : first \in SeqsUpTo(TalkParagraphs, 1), second \in SeqsUpTo(TalkParagraphs, 2)}

\* committee pages: an h2 heading, a section.members with up to MaxListItems
\* structured li and a plain ul with up to MaxListItems li
MaxListItems == 2

StructuredItem(label, h3, h4_tags, text) == [label |-> label, h3 |-> h3, h4_tags |-> h4_tags, text |-> text]

StructuredItems ==
  {StructuredItem(TRUE, Some(<<"A", "n", "n", " ", "L", "e", "e">>), <<<<"M", "I", "T">>>>, <<>>),
   StructuredItem(TRUE, Some(<<"B", "o", "b", " ", "R", "o", "e">>), <<<<"C", "h", "a", "i", "r">>, <<"E", "T", "H">>>>, <<>>),
   StructuredItem(TRUE, Some(<<>>), <<<<"E", "T", "H">>>>, <<>>),
   StructuredItem(TRUE, None, <<>>, <<>>),
   StructuredItem(FALSE, None, <<>>, <<"C", "y", " ", "Y", "u", " ", "(", "K", "T", "H", ")">>)}

Anchor(mailto, text) == [tag |-> "a", mailto |-> mailto, text |-> text]

TextNode(text) == [tag |-> "text", mailto |-> FALSE, text |-> text]

PlainItems ==
  {<<Anchor(FALSE, <<"A", "n", "n", " ", "L", "e", "e">>), TextNode(<<"(", "M", "I", "T", ")">>)>>,
   <<Anchor(FALSE, <<"(", "M", "I", "T", ")">>)>>,
   <<Anchor(TRUE, <<"m", "a", "i", "l">>)>>,
   <<Anchor(FALSE, <<"B", "o", "b", " ", "R", "o", "e">>), TextNode(<<"(", "E", "T", "H", ")", " ", "b", "@", "e", ".", "c", "h", " ", "-", " ", "C", "h", "a", "i", "r">>)>>,
   <<TextNode(<<"C", "y", " ", "Y", "u", ",", " ", "K", "T", "H">>)>>}

MemberPages ==
  [heading : {<<"P", "r", "o", "g", "r", "a", "m", " ", "C", "o", "m", "m", "i", "t", "t", "e", "e">>, <<"S", "p", "o", "n", "s", "o", "r", "s">>},
   member_list : SeqsUpTo(StructuredItems, MaxListItems),
   ul : SeqsUpTo(PlainItems, MaxListItems)]

\* the commands: the options of the command line, whether the local file is
\* there, whether the database knows an archive URL, whether the page could
\* be read, and the page
CommandOptions(venue, pages) ==
  [venue : {venue}, year : {2024}, local : {"no", "file", "dir"}, local_file_exists : BOOLEAN,
   archive_url : BOOLEAN, fetched : {"page", "error"}, force : BOOLEAN, page : pages]

CommitteeCommands ==
  CommandOptions("QCRYPT", {page \in MemberPages : Len(page.member_list) + Len(page.ul) <= 1})
    \cup CommandOptions("QIP", SeqsUpTo({<<"A", "n", "n", " ", "L", "e", "e", ",", " ", "M", "I", "T">>, <<"B", "o", "b", " ", "R", "o", "e">>, <<",", " ", "E", "T", "H">>}, 2))
    \cup CommandOptions("TQC", {<<>>})

TalkCommands ==
  CommandOptions("QIP", {page \in TalkPages : Len(page) = 1 /\ Len(page[1]) <= 2})
    \cup CommandOptions("TQC", {<<>>})

\* the output file before the command: None when there is none, or the file
\* of an earlier run
EarlierCsv(fieldnames) ==
  Some([header |-> fieldnames, rows |-> <<[field \in Range(fieldnames) |-> <<>>]>>])

\* up to MaxRecords person records, each stored by the importer or by the
\* scraper
MaxRecords == 3

AuthorRecords ==
  [name : {<<"A", "n", "n", " ", "L", "e", "e">>, <<"a", "n", "n", " ", "l", "e", "e">>}, affiliation : {None, Some(<<"M", "I", "T">>), Some(<<"E", "T", "H">>)},
   tool : {"import_from_csv", "scrape_committees"}]

\* BibTeX files: up to MaxPieces pieces; at most MaxParsed entries are
\* collected
MaxPieces == 4
MaxParsed == 4

BibtexPieces ==
  {entry_types[1], entry_types[3], <<"a", ",">>, <<"t", "=", "{", "x", "}">>, <<"{">>, <<"}">>}

BibtexFiles == {Concat(pieces) : pieces \in SeqsUpTo(BibtexPieces, MaxPieces)}

\* batch runs: up to two conferences; for each, whether it has committee data
\* already (or the query fails) and what happens to each committee type
BatchConferences ==
  [exists : {"no", "yes", "error"},
   PC : {"no url", "ok", "scrape fails", "store fails"},
   OC : {"no url", "ok", "scrape fails", "store fails"},
   SC : {"ok", "store fails"}]

BatchRuns ==
  [op : {"main"}, force : BOOLEAN, dry_run : BOOLEAN, conferences : SeqsUpTo(BatchConferences, 2) \ {<<>>}]

(***************************************************************************)
(* The operations as actions: one call of a function, from its arguments   *)
(* (args) to its return value (ret).                                       *)
(***************************************************************************)
Call(op) == pc = "call" /\ args.op = op

Return(value) == pc' = "done" /\ ret' = value /\ UNCHANGED args

InitEntry ==
  /\ pc = "call"
  /\ \/ args \in [op : {"parse_member_entry"},
                  text : SeqsUpTo(EntryAlphabet, MaxTextLen),
                  committee_type : {"PC"}]
     \/ args \in [op : {"parse_member_entry"}, text : NamedEntryTexts,
                  committee_type : CommitteeTypes]
  /\ ret = None

ParseMemberEntry ==
  /\ Call("parse_member_entry")
  /\ Return(parse_member_entry(args.text, args.committee_type))

NextEntry == ParseMemberEntry

SpecEntry == InitEntry /\ [][NextEntry]_vars

InitDedup ==
  /\ pc = "call"
  /\ \/ args \in [op : {"deduplicate_members"},
                  members : SeqsUpTo(MemberPool, MaxMembers)]
     \/ args \in [op : {"_deduplicate_members"},
                  members : SeqsUpTo(DictPool, MaxMembers)]
  /\ ret = None

DeduplicateMembers ==
  /\ Call("deduplicate_members")
  /\ Return(deduplicate_members(args.members))

BaseDeduplicateMembers ==
  /\ Call("_deduplicate_members")
  /\ Return(base_deduplicate_members(args.members))

\* the deduplicator run again on its own output
Rerun ==
  /\ pc = "done"
  /\ args.op \in {"deduplicate_members", "_deduplicate_members"}
  /\ pc' = "again"
  /\ args' = [op |-> args.op, members |-> ret, input |-> args.members]
  /\ ret' = IF args.op = "deduplicate_members"
              THEN deduplicate_members(ret)
              ELSE base_deduplicate_members(ret)

NextDedup == DeduplicateMembers \/ BaseDeduplicateMembers \/ Rerun

SpecDedup == InitDedup /\ [][NextDedup]_vars


InitTitle ==
  /\ pc = "call"
  /\ args \in [op : {"normalize_title"}, module : TitleModules, title : Titles]
  /\ ret = None

NormalizeTitleParseSchedule ==
  /\ Call("normalize_title")
  /\ args.module = "parse_schedule"
  /\ Return(normalize_title_parse_schedule(args.title))

NormalizeTitleGenerateCsv ==
  /\ Call("normalize_title")
  /\ args.module = "generate_csv_with_schedule"
  /\ Return(normalize_title_generate_csv(args.title))

NormalizeTitleConvertTqc ==
  /\ Call("normalize_title")
  /\ args.module = "convert_tqc_to_csv"
  /\ Return(normalize_title_convert_tqc(args.title))

\* the same function applied to its own result
NormalizeAgain ==
  /\ pc = "done"
  /\ args.op = "normalize_title"
  /\ pc' = "again"
  /\ args' = [op |-> args.op, module |-> args.module, title |-> ret,
              input |-> args.title]
  /\ ret' = CASE args.module = "parse_schedule" ->
                   normalize_title_parse_schedule(ret)
              [] args.module = "generate_csv_with_schedule" ->
                   normalize_title_generate_csv(ret)
              [] args.module = "convert_tqc_to_csv" ->
                   normalize_title_convert_tqc(ret)

NextTitle ==
  \/ NormalizeTitleParseSchedule
  \/ NormalizeTitleGenerateCsv
  \/ NormalizeTitleConvertTqc
  \/ NormalizeAgain

SpecTitle == InitTitle /\ [][NextTitle]_vars

InitMerge ==
  /\ pc = "call"
  /\ args \in [op : {"merge_schedule_with_talks"},
               talks : SeqsUpTo(TalkPool, MaxTalks),
               schedule : SeqsUpTo(SchedulePool, MaxEvents)]
  /\ ret = None

MergeScheduleWithTalks ==
  /\ Call("merge_schedule_with_talks")
  /\ Return(merge_schedule_with_talks(args.talks, args.schedule))

NextMerge == MergeScheduleWithTalks

SpecMerge == InitMerge /\ [][NextMerge]_vars

InitPage ==
  /\ pc = "call"
  /\ args \in [op : {"parse_committee_members"}, soup : Pages,
               committee_type : PageCommitteeTypes]
  /\ ret = None

ParseCommitteeMembers ==
  /\ Call("parse_committee_members")
  /\ Return(parse_committee_members(args.soup, args.committee_type))

NextPage == ParseCommitteeMembers

SpecPage == InitPage /\ [][NextPage]_vars

InitFields ==
  /\ pc = "call"
  /\ args \in [op : {"extract_name_affiliation_role"}, text : FieldTexts]
  /\ ret = None

ExtractNameAffiliationRole ==
  /\ Call("extract_name_affiliation_role")
  /\ Return(extract_name_affiliation_role(args.text))

\* parse_member_entry's call of detect_position for the extracted fields
DetectPosition ==
  /\ pc = "done"
  /\ args.op = "extract_name_affiliation_role"
  /\ pc' = "again"
  /\ args' = [op |-> "detect_position", name |-> ret.name,
              full_text |-> args.text, role_info |-> ret.role_info,
              affiliation |-> ret.affiliation]
  /\ ret' = detect_position(ret.name, args.text, ret.role_info)

NextFields == ExtractNameAffiliationRole \/ DetectPosition

SpecFields == InitFields /\ [][NextFields]_vars

InitQCrypt ==
  /\ pc = "call"
  /\ args \in [op : {"_parse_plain_text"}, text : QCryptTexts,
               committee_type : QCryptCommitteeTypes, heading_text : QCryptHeadings]
  /\ ret = None

ParsePlainText ==
  /\ Call("_parse_plain_text")
  /\ Return(qcrypt_parse_plain_text(args.text, args.committee_type, args.heading_text))

NextQCrypt == ParsePlainText

SpecQCrypt == InitQCrypt /\ [][NextQCrypt]_vars

InitSection ==
  /\ pc = "call"
  /\ args \in [op : {"parse_section_based", "parse_committee_members"},
               soup : SectionPages, committee_type : PageCommitteeTypes]
  /\ ret = None

ParseSectionBased ==
  /\ Call("parse_section_based")
  /\ Return(parse_section_based(args.soup, section_patterns_of(args.committee_type),
                                args.committee_type))

NextSection == ParseSectionBased \/ ParseCommitteeMembers

SpecSection == InitSection /\ [][NextSection]_vars

\* a process that extracts the persons of several documents in turn: ret
\* holds the results so far and all the members collected so far
InitRuns ==
  /\ pc = "call"
  /\ args \in [op : {"runs"}, calls : SeqsUpTo(RunCalls, MaxRuns) \ {<<>>}]
  /\ ret = [results |-> <<>>, held |-> <<>>]

\* the state of the process after an invocation that returned result
AfterInvocation(results, held, result) ==
  [results |-> Append(results, result), held |-> held \o result]

ParseNextDocument ==
  /\ pc = "call"
  /\ args.op = "runs"
  /\ ret' = AfterInvocation(
              ret.results, ret.held,
              parse_committee_members_in_process(
                ret.held, args.calls[Len(ret.results) + 1].soup,
                args.calls[Len(ret.results) + 1].committee_type))
  /\ pc' = IF Len(ret.results) + 1 = Len(args.calls) THEN "done" ELSE "call"
  /\ UNCHANGED args

NextRuns == ParseNextDocument

SpecRuns == InitRuns /\ [][NextRuns]_vars

\* the venue scrapers on a page: the QIP talk scraper on a programme page,
\* the QCrypt committee scraper on a committee page
InitScrape ==
  /\ pc = "call"
  /\ args \in [op : {"parse_talk_data", "scrape_talks"}, body_sections : TalkPages]
                \cup [op : {"scrape_committee"}, page : MemberPages]
  /\ ret = <<>>

ParseTalkData ==
  /\ Call("parse_talk_data")
  /\ Return(qip_parse_talk_data(args.body_sections))

ScrapeTalks ==
  /\ Call("scrape_talks")
  /\ Return(qip_talk_scrape(args.body_sections))

ScrapeCommittee ==
  /\ Call("scrape_committee")
  /\ Return(qcrypt_scrape(args.page))

NextScrape == ParseTalkData \/ ScrapeTalks \/ ScrapeCommittee

SpecScrape == InitScrape /\ [][NextScrape]_vars

\* the scrape_to_csv commands, each run once on an output directory
InitCommand ==
  /\ pc = "call"
  /\ args \in [op : {"scrape_committees_to_csv"}, cmd : CommitteeCommands, existing : {None, EarlierCsv(committee_fieldnames)}]
                \cup [op : {"scrape_talks_to_csv"}, cmd : TalkCommands, existing : {None, EarlierCsv(talk_fieldnames)}]
  /\ ret = <<>>

ScrapeCommitteesToCsv ==
  /\ Call("scrape_committees_to_csv")
  /\ Return(committees_async_main(args.cmd, args.existing))

ScrapeTalksToCsv ==
  /\ Call("scrape_talks_to_csv")
  /\ Return(talks_async_main(args.cmd, args.existing))

NextCommand == ScrapeCommitteesToCsv \/ ScrapeTalksToCsv

SpecCommand == InitCommand /\ [][NextCommand]_vars

\* the records of args.records stored one after the other in a table that is
\* empty at first
InitAuthors ==
  /\ pc = "call"
  /\ args \in [op : {"get_or_create_author"}, records : SeqsUpTo(AuthorRecords, MaxRecords) \ {<<>>}]
  /\ ret = [authors |-> <<>>, stored |-> 0]

ImportGetOrCreateAuthor ==
  /\ Call("get_or_create_author")
  /\ args.records[ret.stored + 1].tool = "import_from_csv"
  /\ ret' = [authors |-> import_get_or_create_author(ret.authors, args.records[ret.stored + 1].name, args.records[ret.stored + 1].affiliation),
             stored |-> ret.stored + 1]
  /\ pc' = IF ret.stored + 1 = Len(args.records) THEN "done" ELSE "call"
  /\ UNCHANGED args

ScraperGetOrCreateAuthor ==
  /\ Call("get_or_create_author")
  /\ args.records[ret.stored + 1].tool = "scrape_committees"
  /\ ret' = [authors |-> scraper_get_or_create_author(ret.authors, args.records[ret.stored + 1].name, args.records[ret.stored + 1].affiliation),
             stored |-> ret.stored + 1]
  /\ pc' = IF ret.stored + 1 = Len(args.records) THEN "done" ELSE "call"
  /\ UNCHANGED args

NextAuthors == ImportGetOrCreateAuthor \/ ScraperGetOrCreateAuthor

SpecAuthors == InitAuthors /\ [][NextAuthors]_vars

\* parse_bibtex_file, one step for every iteration of "while True": ret holds
\* the entry type being looked for, the scan position, the entries so far and
\* the start of the entry found last
InitBibtex ==
  /\ pc = "call"
  /\ args \in [op : {"parse_bibtex_file"}, content : BibtexFiles]
  /\ ret = [entry_type |-> 1, current_pos |-> 0, entries |-> <<>>, entry_start |-> -1]

\* "if entry_start == -1: break": on to the next entry type, or return
NoMoreEntries ==
  /\ Call("parse_bibtex_file")
  /\ str_find(args.content, entry_types[ret.entry_type], ret.current_pos) = -1
  /\ ret' = [entry_type |-> IF ret.entry_type < Len(entry_types) THEN ret.entry_type + 1 ELSE ret.entry_type,
             current_pos |-> 0, entries |-> ret.entries, entry_start |-> -1]
  /\ pc' = IF ret.entry_type < Len(entry_types) THEN "call" ELSE "done"
  /\ UNCHANGED args

\* an entry found, appended, and the scan moved to its end
ParseEntry ==
  /\ Call("parse_bibtex_file")
  /\ str_find(args.content, entry_types[ret.entry_type], ret.current_pos) # -1
  /\ Len(ret.entries) < MaxParsed
  /\ LET entry_start == str_find(args.content, entry_types[ret.entry_type], ret.current_pos)
         entry == BibtexEntry(args.content, entry_types[ret.entry_type], entry_start)
     IN  ret' = [entry_type |-> ret.entry_type, current_pos |-> entry.entry_end,
                 entries |-> Append(ret.entries, [entry_id |-> entry.entry_id, entry_type |-> entry.entry_type, entry_content |-> entry.entry_content]),
                 entry_start |-> entry_start]
  /\ UNCHANGED <<pc, args>>

NextBibtex == NoMoreEntries \/ ParseEntry

SpecBibtex == InitBibtex /\ [][NextBibtex]_vars

\* main of scrape_committees.py from "pool = await asyncpg.create_pool": ret
\* holds the position in the loops, the committee types tried and stored,
\* the warnings logged, whether "Scraping complete!" was reached and the pool
InitBatch ==
  /\ pc = "call"
  /\ args \in BatchRuns
  /\ ret = [conf |-> 1, at |-> "check", tried |-> {}, stored |-> {}, warnings |-> 0,
            complete |-> FALSE, pool |-> "open"]

\* "if not args.force: exists = await check_committee_exists(...)"
CheckCommitteeExists ==
  /\ Call("main")
  /\ ret.at = "check"
  /\ LET exists == args.conferences[ret.conf].exists
         next == IF args.force \/ exists = "no" THEN [conf |-> ret.conf, at |-> "PC"]
                 ELSE IF exists = "error" THEN [conf |-> ret.conf, at |-> "raise"]
                 ELSE IF ret.conf < Len(args.conferences) THEN [conf |-> ret.conf + 1, at |-> "check"]
                 ELSE [conf |-> ret.conf, at |-> "complete"]
     IN  ret' = [ret EXCEPT !.conf = next.conf, !.at = next.at]
  /\ UNCHANGED <<pc, args>>

ScrapePC ==
  /\ Call("main")
  /\ ret.at = "PC"
  /\ ret' = ScrapeCommitteeType(ret, ret.conf, 1, args.conferences[ret.conf].PC, args.dry_run, Len(args.conferences))
  /\ UNCHANGED <<pc, args>>

ScrapeOC ==
  /\ Call("main")
  /\ ret.at = "OC"
  /\ ret' = ScrapeCommitteeType(ret, ret.conf, 2, args.conferences[ret.conf].OC, args.dry_run, Len(args.conferences))
  /\ UNCHANGED <<pc, args>>

ScrapeSC ==
  /\ Call("main")
  /\ ret.at = "SC"
  /\ ret' = ScrapeCommitteeType(ret, ret.conf, 3, args.conferences[ret.conf].SC, args.dry_run, Len(args.conferences))
  /\ UNCHANGED <<pc, args>>

\* "Scraping complete!", then the finally block
ScrapingComplete ==
  /\ Call("main")
  /\ ret.at = "complete"
  /\ ret' = [ret EXCEPT !.complete = TRUE, !.pool = "closed", !.at = "returned"]
  /\ pc' = "done"
  /\ UNCHANGED args

\* an exception leaves main through the finally block
ExceptionLeavesMain ==
  /\ Call("main")
  /\ ret.at = "raise"
  /\ ret' = [ret EXCEPT !.pool = "closed", !.at = "raised"]
  /\ pc' = "done"
  /\ UNCHANGED args

NextBatch ==
  CheckCommitteeExists \/ ScrapePC \/ ScrapeOC \/ ScrapeSC \/ ScrapingComplete \/ ExceptionLeavesMain

SpecBatch == InitBatch /\ [][NextBatch]_vars

(***************************************************************************)
(* Claims: parse_member_entry                                              *)
(***************************************************************************)
EntryDone == pc = "done" /\ args.op = "parse_member_entry"

\* C1: of the entries "Bob Lee, Program Committee" and "BOB LEE", only the
\* first survives: parse_member_entry returns a record named "Bob Lee" for
\* the first and None for the all-caps one.
C1_OnlyMixedCaseEntrySurvives ==
  EntryDone =>
    /\ args.text = <<"B", "o", "b", " ", "L", "e", "e", ",", " ", "P", "r", "o", "g", "r", "a", "m", " ", "C", "o", "m", "m", "i", "t", "t", "e", "e">>
         => ret # None /\ ret[1].name = <<"B", "o", "b", " ", "L", "e", "e">>
    /\ args.text = <<"B", "O", "B", " ", "L", "E", "E">> => ret = None

\* C8: the name of every accepted entry is stripped, has both an upper-case
\* and a lower-case letter, and is 3 to 100 characters long.
C8_AcceptedNameValid ==
  (EntryDone /\ ret # None) =>
    LET name == ret[1].name
    IN  /\ name = strip(name)
        /\ name # upper(name)
        /\ name # lower(name)
        /\ Len(name) >= 3
        /\ Len(name) <= 100

\* an accepted entry whose extracted name had to be cleaned
C8_Witness ==
  /\ EntryDone
  /\ ret # None
  /\ ret[1].name # extract_name_affiliation_role(args.text).name

(***************************************************************************)
(* Claims: the Deduplicator                                                *)
(***************************************************************************)
DedupDone(op) == pc = "done" /\ args.op = op

\* C4: the deduplicator run on its own output returns that output, in the
\* same order (deduplicate_members and the venue scrapers'
\* _deduplicate_members).
C4_DedupIdempotent == pc = "again" => ret = args.members

\* a second run on the output of a run that dropped and reordered records
C4_Witness ==
  /\ pc = "again"
  /\ args.op = "deduplicate_members"
  /\ Len(args.members) < Len(args.input)
  /\ Len(args.members) >= 2
  /\ args.members # SubSeq(args.input, 1, Len(args.members))

\* the indices of the input records with the identity key of m
SameKey(members, m) ==
  {i \in 1..Len(members) :
     normalize_name(members[i].name) = normalize_name(m.name)}

\* C5 (as claimed): of the records with one identity key, the one kept is
\* the one encountered first in the input.
C5_KeepsFirstEncountered ==
  DedupDone("deduplicate_members") =>
    \A k \in 1..Len(ret) :
      LET same == SameKey(args.members, ret[k])
      IN  ret[k] = args.members[CHOOSE i \in same : \A j \in same : i <= j]

\* C5 (amended): of the records with one identity key, the one kept is the
\* one whose raw name is smallest in code-point order and, among those of
\* equal raw name, the one encountered first in the input.
C5_KeepsFirstInNameOrder ==
  DedupDone("deduplicate_members") =>
    \A k \in 1..Len(ret) :
      LET same == SameKey(args.members, ret[k])
          Before(i, j) ==
            \/ StrLess(args.members[i].name, args.members[j].name)
            \/ args.members[i].name = args.members[j].name /\ i <= j
      IN  ret[k] = args.members[CHOOSE i \in same : \A j \in same : Before(i, j)]

\* two records of one key and different affiliations, the later one first in
\* name order, and two records of equal name and different affiliations
C5_Witness ==
  /\ DedupDone("deduplicate_members")
  /\ \E i, j \in 1..Len(args.members) :
       /\ i < j
       /\ normalize_name(args.members[i].name) = normalize_name(args.members[j].name)
       /\ args.members[i].affiliation # args.members[j].affiliation
       /\ StrLess(args.members[j].name, args.members[i].name)
       /\ args.members[j] \in Range(ret)
  /\ \E i, j \in 1..Len(args.members) :
       /\ i < j
       /\ args.members[i].name = args.members[j].name
       /\ args.members[i].affiliation # args.members[j].affiliation
       /\ args.members[i] \in Range(ret)

\* the identity key (normalized_name, committee_type, position)
IdentityKey(op, m) ==
  IF op = "deduplicate_members"
    THEN <<normalize_name(m.name), m.committee, m.position>>
    ELSE <<strip(lower(m.full_name)), m.committee_type, m.position>>

\* C6: the deduplicated output holds exactly one record for each identity
\* key (normalized_name, committee_type, position) of the input.
C6_OneRecordPerIdentityKey ==
  (pc = "done" /\ args.op \in {"deduplicate_members", "_deduplicate_members"}) =>
    /\ {IdentityKey(args.op, m) : m \in Range(ret)}
         = {IdentityKey(args.op, m) : m \in Range(args.members)}
    /\ \A i, j \in 1..Len(ret) :
         IdentityKey(args.op, ret[i]) = IdentityKey(args.op, ret[j]) => i = j


(***************************************************************************)
(* Claims: titles                                                          *)
(***************************************************************************)
\* C2: in merge_schedule_with_talks the talk title "Quantum Error Correction
\* via X" and the schedule title "quantum error correction via x [remote]"
\* normalize to the same token set and score at least 50.
C2_CaseAndBracketInsensitiveMatch ==
  (pc = "done" /\ args.op = "merge_schedule_with_talks") =>
    \A i \in 1..Len(args.talks), j \in 1..Len(args.schedule) :
      LET talk == args.talks[i]
          sched == args.schedule[j]
          score == match_score(talk, sched)
      IN  (/\ talk.title = <<"Q", "u", "a", "n", "t", "u", "m", " ", "E", "r", "r", "o", "r", " ", "C", "o", "r", "r", "e", "c", "t", "i", "o", "n", " ", "v", "i", "a", " ", "X">>
           /\ sched.title_from_summary = <<"q", "u", "a", "n", "t", "u", "m", " ", "e", "r", "r", "o", "r", " ", "c", "o", "r", "r", "e", "c", "t", "i", "o", "n", " ", "v", "i", "a", " ", "x", " ", "[", "r", "e", "m", "o", "t", "e", "]">>)
          => /\ title_words(normalize_title_convert_tqc(talk.title))
                  = title_words(normalize_title_convert_tqc(sched.title_from_summary))
             /\ score.num >= 50 * score.den

\* C3: each of the three normalize_title functions, applied to its own
\* result, returns that result.
C3_NormalizeIdempotent ==
  (pc = "again" /\ args.op = "normalize_title") => ret = args.title


(***************************************************************************)
(* Claims: parse_committee_members                                         *)
(***************************************************************************)
PageDone == pc = "done" /\ args.op = "parse_committee_members"

\* get_text(' ', strip=True) of every element of the page
PageTexts ==
  {get_text_strip(NodeAt(args.soup, p), <<" ">>) :
     p \in Range(descendants(args.soup))}

\* the names of the structured cards of the page
CardNames ==
  {clean_name(get_text_strip(NodeAt(args.soup, p), <<>>)) :
     p \in {q \in Range(descendants(args.soup)) :
              NodeAt(args.soup, q).tag = "h3"}}

\* the records parse_member_entry gives for the texts of the page that have
\* 3 to 300 characters
RecordsOfTextsInRange ==
  {parse_member_entry(text, args.committee_type) :
     text \in {t \in PageTexts : Len(t) >= 3 /\ Len(t) <= 300}}

\* C7: an entry text shorter than 3 or longer than 300 characters produces
\* no record on any text path: every record parse_committee_members returns
\* is the record of a structured card or the record of a text of the page
\* that has 3 to 300 characters.
C7_OutOfRangeTextsDropped ==
  PageDone =>
    {Some(ret[k]) : k \in {h \in 1..Len(ret) : ret[h].name \notin CardNames}}
      \subseteq RecordsOfTextsInRange

\* a page with texts that are too short and too long for an entry, and
\* accepted entries beside them
C7_Witness ==
  /\ PageDone
  /\ \E t \in PageTexts :
        /\ Len(t) > 300
        /\ parse_member_entry(t, args.committee_type) # None
        /\ \A k \in 1..Len(ret) :
              ret[k].name # parse_member_entry(t, args.committee_type)[1].name
  /\ \E t \in PageTexts : Len(t) < 3 /\ t # <<>>
  /\ \E k \in 1..Len(ret) : ret[k].name \notin CardNames

\* C9: every record parse_committee_members returns has a name that is not
\* empty, is neither all upper-case nor all lower-case, and has 3 to 100
\* characters.
C9_ReturnedNamesValid ==
  PageDone =>
    \A k \in 1..Len(ret) :
       LET name == ret[k].name
       IN  /\ name # <<>>
           /\ name # upper(name)
           /\ name # lower(name)
           /\ Len(name) >= 3
           /\ Len(name) <= 100

\* a page that starts with a heading of the committee asked for, followed by
\* the one structured card Jane Doe / MIT / Program Chair, where the page ends
\* or the next major section starts
JaneDoeCardPage ==
  LET kids == args.soup.kids
  IN  /\ args.op = "parse_committee_members"
      /\ Len(kids) >= 2
      /\ \/ /\ args.committee_type = "PC"
            /\ kids[1] \in {Leaf("h2", {}, <<"P", "r", "o", "g", "r", "a", "m", " ", "C", "o", "m", "m", "i", "t", "t", "e", "e">>),
                            Leaf("h3", {}, <<" ", "P", "C", " ", "M", "e", "m", "b", "e", "r", "s", " ">>)}
         \/ /\ args.committee_type = "OC"
            /\ kids[1] = Leaf("h2", {}, <<"O", "r", "g", "a", "n", "i", "z", "e", "r", "s">>)
      /\ kids[2] = MemberSection(<<Card(<<"J", "a", "n", "e", " ", "D", "o", "e">>,
                                         <<<<"M", "I", "T">>, <<"P", "r", "o", "g", "r", "a", "m", " ", "C", "h", "a", "i", "r">>>>)>>)
      /\ Len(kids) = 2 \/ kids[3].tag = "h2"

\* C10: the region with the one structured card Jane Doe / MIT / Program
\* Chair yields exactly one record: name "Jane Doe", affiliation "MIT",
\* position chair, role_title "Program Chair".
C10_StructuredCardRoundTrip ==
  (pc = "done" /\ JaneDoeCardPage) =>
    ret = <<CommitteeMember(<<"J", "a", "n", "e", " ", "D", "o", "e">>, args.committee_type, "chair",
                            Some(<<"P", "r", "o", "g", "r", "a", "m", " ", "C", "h", "a", "i", "r">>), Some(<<"M", "I", "T">>))>>

C10_Witness ==
  /\ pc = "done"
  /\ JaneDoeCardPage
  /\ Len(args.soup.kids) > 2
  /\ Len(ret) = 1
  /\ ret[1].name = <<"J", "a", "n", "e", " ", "D", "o", "e">>

(***************************************************************************)
(* Claims: the Field Extractor and the Role Classifier                     *)
(***************************************************************************)
FieldsDone == pc = "done" /\ args.op = "extract_name_affiliation_role"

\* the positions at which sub occurs in s
Occurrences(s, sub) ==
  {i \in 1..(Len(s) - Len(sub) + 1) : SubSeq(s, i, i + Len(sub) - 1) = sub}

Least(S) == CHOOSE i \in S : \A j \in S : i <= j

\* an entry N (P) T: no " Site ", and a ")" after the first "("
IsParenthetical(text) ==
  /\ Occurrences(text, <<" ", "S", "i", "t", "e", " ">>) = {}
  /\ Occurrences(text, <<"(">>) # {}
  /\ \E j \in Occurrences(text, <<")">>) : j > Least(Occurrences(text, <<"(">>))

\* C11: for an entry N (P) T without " Site ", the name is the text before
\* the first "(", P is the role text if it contains chair or member and the
\* affiliation otherwise (never both), and T is appended to the role text;
\* "John Smith (MIT)" gives name "John Smith", affiliation "MIT", member.
C11_ParentheticalRule ==
  /\ (FieldsDone /\ IsParenthetical(args.text)) =>
       LET text == args.text
           open == Least(Occurrences(text, <<"(">>))
           close == Least({j \in Occurrences(text, <<")">>) : j > open})
           P == SubSeq(text, open + 1, close - 1)
           T == strip(SubSeq(text, close + 1, Len(text)))
           is_role == \/ Occurrences(lower(P), <<"c", "h", "a", "i", "r">>) # {}
                      \/ Occurrences(lower(P), <<"m", "e", "m", "b", "e", "r">>) # {}
       IN  /\ ret.name = strip(SubSeq(text, 1, open - 1))
           /\ ret.affiliation = IF is_role THEN None ELSE Some(P)
           /\ ret.role_info = (IF is_role THEN P ELSE <<>>)
                                \o (IF T # <<>> THEN <<" ">> \o T ELSE <<>>)
  /\ (pc = "again" /\ args.full_text = <<"J", "o", "h", "n", " ", "S", "m", "i", "t", "h", " ", "(", "M", "I", "T", ")">>) =>
       /\ args.name = <<"J", "o", "h", "n", " ", "S", "m", "i", "t", "h">>
       /\ args.affiliation = Some(<<"M", "I", "T">>)
       /\ ret[1] = "member"

\* a parenthetical role followed by trailing text
C11_Witness ==
  /\ FieldsDone
  /\ args.text = <<"J", "o", " ", "L", "i", " ", "(", "P", "C", " ", "M", "e", "m", "b", "e", "r", ")", " ", "L", "o", "c", "a", "l", " ", "C", "h", "a", "i", "r">>
  /\ IsParenthetical(args.text)
  /\ ret.affiliation = None
  /\ ret.role_info = <<"P", "C", " ", "M", "e", "m", "b", "e", "r", " ", "L", "o", "c", "a", "l", " ", "C", "h", "a", "i", "r">>

\* the dash delimiters of the specification: a hyphen, an en-dash or an
\* em-dash between two spaces
DashDelimiters == {<<" ", "-", " ">>, <<" ", "endash", " ">>, <<" ", "emdash", " ">>}

DashPositions(text) == UNION {Occurrences(text, d) : d \in DashDelimiters}

HasNoParenthesis(text) ==
  /\ Occurrences(text, <<" ", "S", "i", "t", "e", " ">>) = {}
  /\ Occurrences(text, <<"(">>) = {}
  /\ Occurrences(text, <<")">>) = {}

\* an entry N <dash> R with one dash delimiter, no " Site ", no parenthesis
IsDashEntry(text) == HasNoParenthesis(text) /\ Cardinality(DashPositions(text)) = 1

\* C12: for an entry N <dash> R (en-dash, em-dash or hyphen between spaces,
\* no " Site ", no parenthetical) the name is N, and R is the role text if it
\* contains chair, member or organizer and the affiliation otherwise;
\* "Alice Chen – Program Chair" gives name "Alice Chen", position chair and no
\* affiliation; a hyphen inside a hyphenated name does not split the entry.
C12_DashRule ==
  /\ (FieldsDone /\ IsDashEntry(args.text)) =>
       LET text == args.text
           dash == Least(DashPositions(text))
           R == SubSeq(text, dash + 3, Len(text))
           is_role == \/ Occurrences(lower(R), <<"c", "h", "a", "i", "r">>) # {}
                      \/ Occurrences(lower(R), <<"m", "e", "m", "b", "e", "r">>) # {}
                      \/ Occurrences(lower(R), <<"o", "r", "g", "a", "n", "i", "z", "e", "r">>) # {}
       IN  /\ ret.name = strip(SubSeq(text, 1, dash - 1))
           /\ ret.affiliation = IF is_role THEN None ELSE Some(R)
           /\ ret.role_info = IF is_role THEN R ELSE <<>>
  /\ (pc = "again" /\ args.full_text = <<"A", "l", "i", "c", "e", " ", "C", "h", "e", "n", " ", "endash", " ", "P", "r", "o", "g", "r", "a", "m", " ", "C", "h", "a", "i", "r">>) =>
       /\ args.name = <<"A", "l", "i", "c", "e", " ", "C", "h", "e", "n">>
       /\ args.affiliation = None
       /\ ret[1] = "chair"
  /\ (/\ FieldsDone
      /\ HasNoParenthesis(args.text)
      /\ DashPositions(args.text) = {}
      /\ Occurrences(args.text, <<",">>) = {}) => ret.name = args.text

\* the specialized role phrases of the specification and their titles
SpecializedTitles ==
  <<<<"p", "u", "b", "l", "i", "c", "i", "t", "y", " ", "c", "h", "a", "i", "r">>, <<"w", "e", "b", " ", "c", "h", "a", "i", "r">>, <<"r", "e", "g", "i", "s", "t", "r", "a", "t", "i", "o", "n", " ", "c", "h", "a", "i", "r">>, <<"p", "r", "o", "c", "e", "e", "d", "i", "n", "g", "s", " ", "c", "h", "a", "i", "r">>,
    <<"p", "o", "s", "t", "e", "r", " ", "c", "h", "a", "i", "r">>, <<"t", "u", "t", "o", "r", "i", "a", "l", " ", "c", "h", "a", "i", "r">>, <<"w", "o", "r", "k", "s", "h", "o", "p", " ", "c", "h", "a", "i", "r">>, <<"s", "p", "o", "n", "s", "o", "r", "s", "h", "i", "p", " ", "c", "h", "a", "i", "r">>,
    <<"f", "i", "n", "a", "n", "c", "e", " ", "c", "h", "a", "i", "r">>, <<"s", "o", "c", "i", "a", "l", " ", "e", "v", "e", "n", "t", "s", " ", "c", "h", "a", "i", "r">>>>

TitleOfPhrase ==
  [p \in Range(SpecializedTitles) |->
     CASE p = <<"p", "u", "b", "l", "i", "c", "i", "t", "y", " ", "c", "h", "a", "i", "r">> -> <<"P", "u", "b", "l", "i", "c", "i", "t", "y", " ", "C", "h", "a", "i", "r">>
       [] p = <<"w", "e", "b", " ", "c", "h", "a", "i", "r">> -> <<"W", "e", "b", " ", "C", "h", "a", "i", "r">>
       [] p = <<"r", "e", "g", "i", "s", "t", "r", "a", "t", "i", "o", "n", " ", "c", "h", "a", "i", "r">> -> <<"R", "e", "g", "i", "s", "t", "r", "a", "t", "i", "o", "n", " ", "C", "h", "a", "i", "r">>
       [] p = <<"p", "r", "o", "c", "e", "e", "d", "i", "n", "g", "s", " ", "c", "h", "a", "i", "r">> -> <<"P", "r", "o", "c", "e", "e", "d", "i", "n", "g", "s", " ", "C", "h", "a", "i", "r">>
       [] p = <<"p", "o", "s", "t", "e", "r", " ", "c", "h", "a", "i", "r">> -> <<"P", "o", "s", "t", "e", "r", " ", "C", "h", "a", "i", "r">>
       [] p = <<"t", "u", "t", "o", "r", "i", "a", "l", " ", "c", "h", "a", "i", "r">> -> <<"T", "u", "t", "o", "r", "i", "a", "l", " ", "C", "h", "a", "i", "r">>
       [] p = <<"w", "o", "r", "k", "s", "h", "o", "p", " ", "c", "h", "a", "i", "r">> -> <<"W", "o", "r", "k", "s", "h", "o", "p", " ", "C", "h", "a", "i", "r">>
       [] p = <<"s", "p", "o", "n", "s", "o", "r", "s", "h", "i", "p", " ", "c", "h", "a", "i", "r">> -> <<"S", "p", "o", "n", "s", "o", "r", "s", "h", "i", "p", " ", "C", "h", "a", "i", "r">>
       [] p = <<"f", "i", "n", "a", "n", "c", "e", " ", "c", "h", "a", "i", "r">> -> <<"F", "i", "n", "a", "n", "c", "e", " ", "C", "h", "a", "i", "r">>
       [] p = <<"s", "o", "c", "i", "a", "l", " ", "e", "v", "e", "n", "t", "s", " ", "c", "h", "a", "i", "r">> -> <<"S", "o", "c", "i", "a", "l", " ", "E", "v", "e", "n", "t", "s", " ", "C", "h", "a", "i", "r">>]

\* the ordered rule table of the specification, applied to the lower-cased
\* text the classifier tests
RoleTable(combined) ==
  LET has(p) == Contains(combined, p)
      specialized == {i \in DOMAIN SpecializedTitles : has(SpecializedTitles[i])}
  IN  IF has(<<"g", "e", "n", "e", "r", "a", "l", " ", "c", "h", "a", "i", "r">>) \/ has(<<"c", "o", "n", "f", "e", "r", "e", "n", "c", "e", " ", "c", "h", "a", "i", "r">>)
        THEN <<"chair", Some(<<"G", "e", "n", "e", "r", "a", "l", " ", "C", "h", "a", "i", "r">>)>>
      ELSE IF has(<<"p", "r", "o", "g", "r", "a", "m", " ", "c", "h", "a", "i", "r">>) \/ has(<<"p", "r", "o", "g", "r", "a", "m", "m", "e", " ", "c", "h", "a", "i", "r">>) \/ has(<<"p", "c", " ", "c", "h", "a", "i", "r">>)
        THEN <<"chair", Some(<<"P", "r", "o", "g", "r", "a", "m", " ", "C", "h", "a", "i", "r">>)>>
      ELSE IF has(<<"s", "t", "e", "e", "r", "i", "n", "g", " ", "c", "h", "a", "i", "r">>) \/ has(<<"s", "c", " ", "c", "h", "a", "i", "r">>)
        THEN <<"chair", Some(<<"S", "t", "e", "e", "r", "i", "n", "g", " ", "C", "h", "a", "i", "r">>)>>
      ELSE IF has(<<"l", "o", "c", "a", "l", " ", "c", "h", "a", "i", "r">>)
        THEN <<"chair", Some(<<"L", "o", "c", "a", "l", " ", "C", "h", "a", "i", "r">>)>>
      ELSE IF specialized # {}
        THEN <<"chair", Some(TitleOfPhrase[SpecializedTitles[Least(specialized)]])>>
      ELSE IF has(<<"c", "o", "-", "c", "h", "a", "i", "r">>) \/ has(<<"c", "o", "c", "h", "a", "i", "r">>)
        THEN <<"co_chair", None>>
      ELSE IF has(<<"a", "r", "e", "a", " ", "c", "h", "a", "i", "r">>) \/ has(<<"s", "e", "n", "i", "o", "r", " ", "p", "c">>)
        THEN <<"area_chair", None>>
      ELSE IF has(<<"c", "h", "a", "i", "r">>)
        THEN <<"chair", None>>
      ELSE <<"member", None>>

PositionDetected == pc = "again" /\ args.op = "detect_position"

\* C13: the position and role title the Role Classifier returns are those of
\* the specification's ordered rule table (general/conference, program/
\* programme/pc, steering/sc, local chair, the specialized chairs with their
\* fixed titles, co-chair, area chair/senior pc, bare chair, else member),
\* first match winning.
C13_RoleTable ==
  PositionDetected =>
    ret = RoleTable(lower(args.full_text \o <<" ">> \o args.role_info))

\* C14: the position and role title of an entry depend only on its role text
\* (no heading reaches detect_position): any other entry with the same role
\* text gets the same position and title, whatever its name and affiliation.
C14_PositionFromRoleTextOnly ==
  PositionDetected =>
    \A other \in NamedFieldTexts :
      LET e == extract_name_affiliation_role(other)
      IN  e.role_info = args.role_info =>
            detect_position(e.name, other, e.role_info) = ret

(***************************************************************************)
(* Claims: the venue scrapers                                              *)
(***************************************************************************)
CanonicalPositions == {"member", "chair", "co_chair", "area_chair"}

\* C15: every record the QCrypt scraper's plain-text parser emits has a
\* position in {member, chair, co_chair, area_chair}.
C15_CanonicalPosition ==
  (pc = "done" /\ args.op = "_parse_plain_text" /\ ret # None) =>
    ret[1].position \in CanonicalPositions

(***************************************************************************)
(* Claims: the Region Locator                                              *)
(***************************************************************************)
SectionDone == pc = "done" /\ args.op = "parse_section_based"

\* the elements of the page in document order, and the headings that match
\* the committee type, as positions in that order
DocumentOrder == descendants(args.soup)

IsHeadingAt(i) == NodeAt(args.soup, DocumentOrder[i]).tag \in heading_tags

MatchingHeadings ==
  {i \in 1..Len(DocumentOrder) :
     /\ IsHeadingAt(i)
     /\ HeadingMatches(NodeAt(args.soup, DocumentOrder[i]),
                       section_patterns_of(args.committee_type))}

\* the first heading after position i at the same or a more significant
\* level; the end of the document when there is none
RegionEnd(i) ==
  LET later == {j \in (i + 1)..Len(DocumentOrder) :
                  /\ IsHeadingAt(j)
                  /\ heading_level(NodeAt(args.soup, DocumentOrder[j]))
                       <= heading_level(NodeAt(args.soup, DocumentOrder[i]))}
  IN  IF later = {} THEN Len(DocumentOrder) + 1 ELSE Least(later)

\* the records of the list entries between the heading at i and its boundary
RegionRecords(i) ==
  {parse_member_entry(get_text_strip(NodeAt(args.soup, DocumentOrder[j]), <<" ">>),
                      args.committee_type) :
     j \in {k \in (i + 1)..(RegionEnd(i) - 1) :
              NodeAt(args.soup, DocumentOrder[k]).tag = "li"}} \ {None}

\* C16: the members parse_section_based returns for a matching heading of
\* level L are exactly the list entries between that heading and the first
\* later heading of level <= L (or the end of the document): entries after a
\* less significant sub-heading are included, entries after the boundary
\* heading are not, wherever the boundary heading is in the tree.
C16_RegionIsExact ==
  (SectionDone /\ ret # None) =>
    \E i \in MatchingHeadings :
       {Some(ret[1][k]) : k \in 1..Len(ret[1])} = RegionRecords(i)

\* the members of the regions of all the matching headings, in document order
RECURSIVE AllRegionsFrom(_, _, _, _, _)
AllRegionsFrom(soup, headings, idx, section_patterns, committee_type) ==
  IF idx > Len(headings) THEN <<>>
  ELSE (IF HeadingMatches(NodeAt(soup, headings[idx]), section_patterns)
          THEN extract_members_between_headings(
                 soup, headings[idx], NextHeading(soup, headings, idx), committee_type)
          ELSE <<>>)
         \o AllRegionsFrom(soup, headings, idx + 1, section_patterns, committee_type)

AllRegions ==
  AllRegionsFrom(args.soup, find_all(args.soup, heading_tags, {}, TRUE), 1,
                 section_patterns_of(args.committee_type), args.committee_type)

\* C17: when several headings match the committee type, the region of each
\* is processed and the results are concatenated: every member of the region
\* of any matching heading, the second as well as the first, is in the result
\* of parse_section_based and in the result of parse_committee_members.
C17_RegionsConcatenated ==
  /\ SectionDone => Range(AllRegions) \subseteq Range(IF ret = None THEN <<>> ELSE ret[1])
  /\ PageDone => Range(AllRegions) \subseteq Range(ret)

\* C18: when no heading of the page matches a pattern of the committee type,
\* parse_committee_members returns no member, whatever lists the page has.
C18_NoRegionFound ==
  (PageDone /\ MatchingHeadings = {}) => ret = <<>>

(***************************************************************************)
(* Claims: merge_schedule_with_talks, the choice of the schedule event     *)
(***************************************************************************)
MergeDone == pc = "done" /\ args.op = "merge_schedule_with_talks"

\* the identifiers of a schedule event
EventIdentifiers(sched) == Range(SplitAll(sched.arxiv_ids, <<",", " ">>)) \ {<<>>}

\* 100 for the talk's identifier among the event's, plus 50 times the Jaccard
\* similarity of the word sets of the normalized titles, as a fraction
ClaimedScore(talk, sched) ==
  LET talk_words == title_words(normalize_title_convert_tqc(talk.title))
      sched_words == title_words(normalize_title_convert_tqc(sched.title_from_summary))
      bonus == IF strip(talk.arxiv_ids) \in EventIdentifiers(sched) THEN 100 ELSE 0
      union == Cardinality(talk_words \cup sched_words)
  IN  IF union = 0 THEN Score(bonus, 1)
      ELSE Score(bonus * union + 50 * Cardinality(talk_words \cap sched_words), union)

\* the events of the schedule that score above the threshold for the talk
AboveThreshold(talk) ==
  {j \in 1..Len(args.schedule) :
     ScoreGreater(ClaimedScore(talk, args.schedule[j]), Score(20, 1))}

\* the first of the events with the highest score above the threshold
ClaimedMatch(talk) ==
  Least({j \in AboveThreshold(talk) :
           \A i \in AboveThreshold(talk) :
              ~ScoreGreater(ClaimedScore(talk, args.schedule[i]),
                            ClaimedScore(talk, args.schedule[j]))})

\* the talk with the schedule fields of the event, and the event's speaker
\* when it has one
Attached(talk, sched) ==
  [talk EXCEPT !.scheduled_date = sched.date,
               !.scheduled_time = sched.time,
               !.duration_minutes = sched.duration_minutes,
               !.speakers = IF sched.speaker # <<>> THEN sched.speaker ELSE @]

\* C19: each talk that has an event scoring strictly above 20 gets the
\* schedule data of the event with the highest score (100 for the arXiv
\* identifier plus 50 times the Jaccard similarity of the titles' word sets),
\* the first in schedule order among those that tie.
C19_HighestScoreFirstOfTies ==
  MergeDone =>
    \A k \in 1..Len(args.talks) :
       AboveThreshold(args.talks[k]) # {} =>
         ret[1][k] = Attached(args.talks[k], args.schedule[ClaimedMatch(args.talks[k])])

\* a talk for which two different events tie for the highest score, and which
\* gets the date of the first
C19_Witness ==
  /\ MergeDone
  /\ \E k \in 1..Len(args.talks) :
        LET talk == args.talks[k]
        IN  /\ Cardinality(AboveThreshold(talk)) = 2
            /\ ~ScoreGreater(ClaimedScore(talk, args.schedule[1]), ClaimedScore(talk, args.schedule[2]))
            /\ ~ScoreGreater(ClaimedScore(talk, args.schedule[2]), ClaimedScore(talk, args.schedule[1]))
            /\ args.schedule[1].date # args.schedule[2].date
            /\ ret[1][k].scheduled_date = args.schedule[1].date

\* C20: the result has one record for each talk, in the order of the talks; a
\* talk with no event scoring above the threshold is returned as it came
\* (schedule fields and speakers unchanged) and is not counted as matched.
C20_UnmatchedTalkKept ==
  MergeDone =>
    /\ Len(ret[1]) = Len(args.talks)
    /\ \A k \in 1..Len(args.talks) :
          /\ ret[1][k].title = args.talks[k].title
          /\ ret[1][k].arxiv_ids = args.talks[k].arxiv_ids
          /\ AboveThreshold(args.talks[k]) = {} => ret[1][k] = args.talks[k]
    /\ ret[2] = Cardinality({k \in 1..Len(args.talks) : AboveThreshold(args.talks[k]) # {}})

\* two talks and a schedule with an event for the second talk only
C20_Witness ==
  /\ MergeDone
  /\ Len(args.talks) = 2
  /\ args.schedule # <<>>
  /\ AboveThreshold(args.talks[1]) = {}
  /\ AboveThreshold(args.talks[2]) # {}
  /\ ret[1][1] = args.talks[1]
  /\ ret[1][1].speakers # <<>>
  /\ ret[2] = 1

\* C21: matching is greedy per talk: the record of each talk is the one
\* merge_schedule_with_talks returns for that talk alone with the same
\* schedule, whatever the other talks are, and talks that score best against
\* the same event all get that event (no two talks with different schedule
\* fields have the same best event).
C21_MatchPerTalkAlone ==
  MergeDone =>
    \A k \in 1..Len(args.talks) :
       /\ ret[1][k] = merge_schedule_with_talks(<<args.talks[k]>>, args.schedule)[1][1]
       /\ \A i \in 1..(k - 1) :
             (\/ ret[1][i].scheduled_date # ret[1][k].scheduled_date
              \/ ret[1][i].scheduled_time # ret[1][k].scheduled_time)
               => ~(/\ AboveThreshold(args.talks[i]) # {}
                    /\ AboveThreshold(args.talks[k]) # {}
                    /\ ClaimedMatch(args.talks[i]) = ClaimedMatch(args.talks[k]))

\* two different talks that score best against the same event, both attached
\* to it
C21_Witness ==
  /\ MergeDone
  /\ Len(args.talks) = 2
  /\ args.talks[1].title # args.talks[2].title
  /\ AboveThreshold(args.talks[1]) # {}
  /\ AboveThreshold(args.talks[2]) # {}
  /\ ClaimedMatch(args.talks[1]) = ClaimedMatch(args.talks[2])
  /\ ret[1][1].scheduled_date = args.schedule[ClaimedMatch(args.talks[1])].date
  /\ ret[1][2].scheduled_date = ret[1][1].scheduled_date
  /\ ret[2] = 2

TalksParsed == pc = "done" /\ args.op = "parse_talk_data"

\* a speaker paragraph: a strong element and a line break
IsSpeakerParagraph(p) == br_tags(p) /\ strong_tags(p) # <<>>

\* the paragraphs after the speaker paragraph i of a section, up to the next
\* speaker paragraph
OwnParagraphs(section, i) ==
  LET later == {j \in (i + 1)..Len(section) : IsSpeakerParagraph(section[j])}
      next == IF later = {} THEN Len(section) + 1 ELSE CHOOSE j \in later : \A k \in later : j <= k
  IN  SubSeq(section, i + 1, next - 1)

\* the titles that the paragraphs ps offer: the text of a paragraph that is
\* one strong element
TitlesOf(ps) ==
  {strong_tags(ps[j])[1] : j \in {j \in 1..Len(ps) : ~ br_tags(ps[j]) /\ Len(strong_tags(ps[j])) = 1}}

\* the abstracts that can be put together from the paragraphs ps
AbstractsOf(ps) ==
  LET plain == SelectSeq(ps, LAMBDA p : strong_tags(p) = <<>> /\ ~ br_tags(p))
      texts == <<>> \o [j \in 1..Len(plain) |-> paragraph_text(plain[j])]
  IN  {None} \cup {Some(join(<<" ">>, SelectSeq(texts, LAMBDA t : t \in chosen))) : chosen \in SUBSET Range(texts) \ {{}}}

\* C27: every talk takes its title and its abstract from the paragraphs
\* between its own speaker paragraph and the next speaker paragraph; a title
\* before the first speaker paragraph of a section is attached to no talk and
\* a speaker paragraph with no title after it gives no talk.
C27_TalkFromOwnParagraphs ==
  TalksParsed =>
    \A k \in 1..Len(ret) :
       \E s \in 1..Len(args.body_sections) :
          \E i \in 1..Len(args.body_sections[s]) :
             LET section == args.body_sections[s]
                 own == OwnParagraphs(section, i)
             IN  /\ IsSpeakerParagraph(section[i])
                 /\ ret[k].speakers = SubSeq(strong_tags(PartsAtBr(section[i])[1]), 1, 1)
                 /\ ret[k].title \in TitlesOf(own)
                 /\ ret[k].abstract \in AbstractsOf(own)

\* C24: no record is returned with an empty mandatory field: every person of
\* a venue scraper's scrape() has a name and every talk of a talk scraper's
\* scrape() has a title.
C24_MandatoryFieldPresent ==
  /\ (pc = "done" /\ args.op = "scrape_committee") => \A k \in 1..Len(ret) : ret[k].full_name # <<>>
  /\ (pc = "done" /\ args.op = "scrape_talks") => \A k \in 1..Len(ret) : ret[k].title # <<>>

(***************************************************************************)
(* Claims: the scrape_to_csv commands                                      *)
(***************************************************************************)
CommandDone == pc = "done" /\ args.op \in {"scrape_committees_to_csv", "scrape_talks_to_csv"}

\* C23: for TQC, which has no parsing rule, the command writes no CSV file
\* and ends with a failure status; when scrape() is called and the page can
\* be read, what it raises is the "not implemented" signal, and that is what
\* the command reports.
C23_NotImplementedFails ==
  (CommandDone /\ args.cmd.venue = "TQC") =>
    /\ ret.status = 1
    /\ ret.file = args.existing
    /\ ret.saved = "not called"
    /\ (ret.scraped # "not called" /\ args.cmd.fetched = "page")
         => (ret.scraped = "NotImplementedError" /\ ret.signal = "not implemented")

\* the TQC talk command on a local file that is there, and the TQC committee
\* command, both reaching the parser
C23_Witness ==
  /\ CommandDone
  /\ args.cmd.venue = "TQC"
  /\ args.cmd.fetched = "page"
  /\ args.cmd.local = "file"
  /\ args.cmd.local_file_exists
  /\ args.cmd.force
  /\ args.existing = None
  /\ ret.scraped = "NotImplementedError"
  /\ ret.file = None

\* the columns of the committee CSV
ClaimedColumns == <<"venue", "year", "committee_type", "position", "full_name", "affiliation", "role_title">>

\* C25: whenever a venue scraper returns members and the output file may be
\* written, save_to_csv completes without an error and the file has the
\* columns venue, year, committee_type, position, full_name, affiliation,
\* role_title, with one row per member.
C25_EveryRecordWritten ==
  (CommandDone /\ args.op = "scrape_committees_to_csv" /\ ret.saved \notin {"not called", "None"}) =>
    /\ ret.saved = "path"
    /\ ret.file # None
    /\ ret.file[1].header = ClaimedColumns
    /\ Len(ret.file[1].rows) = Len(committee_scrape(args.cmd.venue, args.cmd.fetched, args.cmd.page).value)
    /\ \A k \in 1..Len(ret.file[1].rows) : "role_title" \in DOMAIN ret.file[1].rows[k]

\* C29: an output file that exists is left as it is unless --force is given,
\* save_to_csv then returning None; the file is written only with --force
\* or when there was none, by the committee command and by the talk command.
C29_ExistingFileKept ==
  CommandDone =>
    /\ (args.existing # None /\ ~args.cmd.force) => (ret.file = args.existing /\ ret.saved \in {"not called", "None"})
    /\ ret.saved \in {"path", "ValueError"} => (args.cmd.force \/ args.existing = None)

\* the talk command with talks to save, on an output directory that holds
\* the file of an earlier run, without --force
C29_Witness ==
  /\ CommandDone
  /\ args.op = "scrape_talks_to_csv"
  /\ args.existing # None
  /\ ~args.cmd.force
  /\ ret.scraped = "returned"
  /\ talk_scrape(args.cmd.venue, args.cmd.local # "no", args.cmd.fetched, args.cmd.page).value # <<>>
  /\ ret.saved = "None"
  /\ ret.file = args.existing

(***************************************************************************)
(* Claims: the authors table                                               *)
(***************************************************************************)
\* C26: an affiliation is filled in only where there was none: storing a
\* record never changes the affiliation of an author who has one.
C26_AffiliationOnlyBackfilled ==
  [][\A i \in 1..Len(ret.authors) :
       Truthy(ret.authors[i].affiliation) => ret'.authors[i].affiliation = ret.authors[i].affiliation]_vars

(***************************************************************************)
(* Claims: parse_bibtex_file                                               *)
(***************************************************************************)
\* C28: every iteration that finds an entry leaves the scan position
\* strictly after the start of that entry, so that the scan of a finite file
\* ends, also when no comma follows the entry marker or an unbalanced
\* closing brace precedes it.
C28_ScanAdvances ==
  (args.op = "parse_bibtex_file" /\ ret.entry_start # -1) => ret.current_pos > ret.entry_start

(***************************************************************************)
(* Claims: the batch run of scrape_committees.py                           *)
(***************************************************************************)
\* the conferences that are not skipped, when no query for existing data
\* fails
BatchScraped ==
  {i \in 1..Len(args.conferences) : args.force \/ args.conferences[i].exists = "no"}

NoQueryFails ==
  args.force \/ \A i \in 1..Len(args.conferences) : args.conferences[i].exists # "error"

\* C30: a failure while scraping or storing one committee type does not end
\* the run: every committee type with a URL of every conference that is not
\* skipped is tried, the run reaches "Scraping complete!" and closes the pool.
C30_FailureDoesNotAbort ==
  (pc = "done" /\ args.op = "main" /\ NoQueryFails) =>
    /\ ret.complete
    /\ ret.pool = "closed"
    /\ \A i \in BatchScraped :
          /\ args.conferences[i].PC # "no url" => <<i, "PC">> \in ret.tried
          /\ args.conferences[i].OC # "no url" => <<i, "OC">> \in ret.tried
          /\ <<i, "SC">> \in ret.tried

\* the program committee of the first conference fails to be scraped and its
\* organizing committee to be stored; the second conference is stored
C30_Witness ==
  /\ pc = "done"
  /\ args.op = "main"
  /\ ~args.force
  /\ ~args.dry_run
  /\ Len(args.conferences) = 2
  /\ args.conferences[1].exists = "no"
  /\ args.conferences[1].PC = "scrape fails"
  /\ args.conferences[1].OC = "store fails"
  /\ ret.warnings >= 2
  /\ <<1, "SC">> \in ret.stored
  /\ <<2, "PC">> \in ret.stored
  /\ ret.complete
  /\ ret.pool = "closed"

=============================================================================
